---------------------------- MODULE Spec2Model ----------------------------
(***************************************************************************)
(* Model of the quarterly-disclosure pipeline: the bank extractors         *)
(* (bradesco_series.py, santander_series.py, banco_brasil_series.py,       *)
(* banco_brasil_series_glue.py, itau_series.py) and the attribute          *)
(* resolution stage (main.py).                                             *)
(*                                                                         *)
(* Python strings are modelled as sequences of one-character strings, so   *)
(* that strip(), the regular expressions and the f-string formatting are   *)
(* computed character by character.                                        *)
(***************************************************************************)
EXTENDS Integers, Sequences, FiniteSets, TLC

VARIABLES
    extractor,      \* which extractor's copy of the functions is running
    \* --- date-label normalizer (format_data_base / extract_data_divulgacao)
    label,          \* the date label handed to format_data_base
    labelForm,      \* ghost: the form the label is written in ("junk": no date)
    labelMonth,     \* ghost: calendar month the label denotes (0: none)
    labelYear,      \* ghost: calendar year the label denotes (0: none)
    file_name,      \* the file name handed to extract_data_divulgacao
    fileQuarter,    \* ghost: [q, yy] of the first quarter code in file_name (q = 0: none)
    formatted,      \* result of format_data_base(label)
    reformatted,    \* result of format_data_base(formatted)
    data_div,       \* result of extract_data_divulgacao(file_name)
    pcDate,         \* position of the normalizer run
    \* --- extraction driver (process_file / process_s3_file)
    sheets,         \* the workbook: a sequence of [name, grid], in xl.sheet_names order
    sheet_targets,  \* the configured target sheet labels
    sheet_map,      \* normalized sheet name -> real name, as a sequence of [norm, real]
    target_i,       \* the place in sheet_targets of the target processed next
    records,        \* the records list of process_file
    pcFile,         \* position of process_file
    excel_files,    \* the workbooks main hands to process_file, in sorted order
    file_i,         \* the place in excel_files of the file being processed
    all_records,    \* the all_records list of main
    outcomes,       \* ghost: what became of each target so far: [file, target, matched, status, header]
    \* --- consolidation (main.py): load_series_historicas
    frames,         \* the frames read from the series CSV files, in reading order
    df_latest,      \* the frame load_series_historicas returns
    pcSeries,       \* position of load_series_historicas
    \* --- consolidation (main.py): unify_origins
    manual_df,      \* output of process_manual
    origin_df,      \* series, ifdata and mda outputs concatenated
    calc_df,        \* output of process_calculados
    historico_df,   \* output of process_historico
    df_dedup,       \* the frame unify_origins returns
    pcUnify,        \* position of main, from the branch outputs to the saved tables
    calculados,     \* the mapping rows of origem "calculado"
    df_folh_ajus,   \* the final table of the adjust records
    df_folh_inpu    \* the final table of the input records

dateVars == <<label, labelForm, labelMonth, labelYear, formatted, reformatted, pcDate>>

fileVars == <<sheets, sheet_targets, sheet_map, target_i, records, pcFile,
              excel_files, file_i, all_records, outcomes>>

seriesVars == <<frames, df_latest, pcSeries>>

unifyVars == <<manual_df, origin_df, calc_df, historico_df, df_dedup, pcUnify,
               calculados, df_folh_ajus, df_folh_inpu>>

mainVars == <<seriesVars, unifyVars>>

extractorVars == <<extractor, file_name, fileQuarter, data_div>>

vars == <<extractorVars, dateVars, fileVars, mainVars>>

-----------------------------------------------------------------------------
(* Bounds of the model *)

\* two-digit years used in generated labels: MaxYear - 1 and MaxYear
MaxYear == 25

\* data rows below the header row of a generated grid: 0..MaxDataRows
MaxDataRows == 2

\* series CSV files read by load_series_historicas: 0..MaxSeriesFiles
MaxSeriesFiles == 3

\* records of each branch output handed to unify_origins: 0..MaxBranchLen
MaxBranchLen == 2

Years == (MaxYear - 1)..MaxYear

-----------------------------------------------------------------------------
(* Characters *)

Digits == <<"0", "1", "2", "3", "4", "5", "6", "7", "8", "9">>

UpperCase == <<"A", "B", "C", "D", "E", "F", "G", "H", "I", "J", "K", "L", "M",
               "N", "O", "P", "Q", "R", "S", "T", "U", "V", "W", "X", "Y", "Z">>

LowerCase == <<"a", "b", "c", "d", "e", "f", "g", "h", "i", "j", "k", "l", "m",
               "n", "o", "p", "q", "r", "s", "t", "u", "v", "w", "x", "y", "z">>

IsDigit(c) == \E i \in 1..10 : Digits[i] = c

DigitVal(c) == CHOOSE i \in 0..9 : Digits[i + 1] = c

IsUpper(c) == \E i \in 1..26 : UpperCase[i] = c

IsLower(c) == \E i \in 1..26 : LowerCase[i] = c

\* [A-Za-z] (the accented range of the pattern is not used by any label here)
IsLetter(c) == IsUpper(c) \/ IsLower(c)

\* str.lower() on one character
Lower(c) == IF IsUpper(c) THEN LowerCase[CHOOSE i \in 1..26 : UpperCase[i] = c] ELSE c

\* \s of the regular expressions and of str.strip()
IsSpace(c) == c = " "

\* int() of a two-digit group
Int2(a, b) == 10 * DigitVal(a) + DigitVal(b)

\* int() of a four-digit group
Int4(a, b, c, d) == 1000 * DigitVal(a) + 100 * DigitVal(b) + 10 * DigitVal(c) + DigitVal(d)

\* f"{n:02d}"
Fmt02d(n) == <<Digits[(n \div 10) + 1], Digits[(n % 10) + 1]>>

\* f"{n:04d}"
Fmt04d(n) == <<Digits[(n \div 1000) + 1], Digits[((n \div 100) % 10) + 1],
               Digits[((n \div 10) % 10) + 1], Digits[(n % 10) + 1]>>

RECURSIVE LStrip(_)
LStrip(s) == IF s # <<>> /\ IsSpace(Head(s)) THEN LStrip(Tail(s)) ELSE s

RECURSIVE RStrip(_)
RStrip(s) == IF s # <<>> /\ IsSpace(s[Len(s)]) THEN RStrip(SubSeq(s, 1, Len(s) - 1)) ELSE s

\* str.strip()
Strip(s) == RStrip(LStrip(s))

RECURSIVE DigitsValue(_)
DigitsValue(s) ==
    IF s = <<>> THEN 0 ELSE 10 * DigitsValue(SubSeq(s, 1, Len(s) - 1)) + DigitVal(s[Len(s)])

\* str(n) for n >= 0
RECURSIVE DecStr(_)
DecStr(n) == IF n < 10 THEN <<Digits[n + 1]>> ELSE DecStr(n \div 10) \o <<Digits[(n % 10) + 1]>>

-----------------------------------------------------------------------------
(* Labels: a header cell is text, a native date (pandas Timestamp) or a number *)

StrLabel(s) == [typ |-> "str", s |-> s, y |-> 0, m |-> 0, d |-> 0, n |-> 0]

TsLabel(y, m, d) == [typ |-> "ts", s |-> <<>>, y |-> y, m |-> m, d |-> d, n |-> 0]

IntLabel(n) == [typ |-> "int", s |-> <<>>, y |-> 0, m |-> 0, d |-> 0, n |-> n]

\* str(cell): text as is, Timestamp as "YYYY-MM-DD 00:00:00", an int in decimal, NaN
\* as "nan"
PyStr(l) ==
    IF l.typ = "str" THEN l.s
    ELSE IF l.typ = "ts"
         THEN Fmt04d(l.y) \o <<"-">> \o Fmt02d(l.m) \o <<"-">> \o Fmt02d(l.d)
              \o <<" ", "0", "0", ":", "0", "0", ":", "0", "0">>
         ELSE IF l.typ = "int" THEN DecStr(l.n)
         ELSE <<"n", "a", "n">>

-----------------------------------------------------------------------------
(* Date label normalizer *)

\* f"{ano_full:04d}-{mes:02d}-01"
CanonDate(year, month) == Fmt04d(year) \o <<"-">> \o Fmt02d(month) \o <<"-", "0", "1">>

\* re.match(r"([1-4])T(\d{2})", text, flags=re.IGNORECASE): a prefix match
MatchQuarter(text) ==
    /\ Len(text) >= 4
    /\ text[1] \in {"1", "2", "3", "4"}
    /\ Lower(text[2]) = "t"
    /\ IsDigit(text[3])
    /\ IsDigit(text[4])

\* mes_map = {1: 3, 2: 6, 3: 9, 4: 12}; mes_map.get(trimestre, 1)
mes_map(trimestre) ==
    CASE trimestre = 1 -> 3
      [] trimestre = 2 -> 6
      [] trimestre = 3 -> 9
      [] trimestre = 4 -> 12
      [] OTHER -> 1

\* the quarter branch: 2000 + yy, quarter-end month
QuarterDate(text) ==
    LET trimestre == DigitVal(text[1])
        ano == Int2(text[3], text[4])
    IN  CanonDate(2000 + ano, mes_map(trimestre))

\* re.match(r"([A-Za-z\u00C0-\u00FF]{3})/?(\d{2})", text, flags=re.IGNORECASE): a prefix match
MatchMonth(text) ==
    /\ Len(text) >= 5
    /\ IsLetter(text[1]) /\ IsLetter(text[2]) /\ IsLetter(text[3])
    /\ \/ (text[4] = "/" /\ Len(text) >= 6 /\ IsDigit(text[5]) /\ IsDigit(text[6]))
       \/ (IsDigit(text[4]) /\ IsDigit(text[5]))

\* m2.group(1).lower()
MonthStr(text) == <<Lower(text[1]), Lower(text[2]), Lower(text[3])>>

\* int(m2.group(2))
MonthYear(text) ==
    IF text[4] = "/" THEN Int2(text[5], text[6]) ELSE Int2(text[4], text[5])

\* mes_map_dict.get(mes_str[:3], None); 0 stands for None
mes_map_dict(mes_str) ==
    CASE mes_str = <<"j", "a", "n">> -> 1
      [] mes_str = <<"f", "e", "v">> -> 2
      [] mes_str = <<"f", "e", "b">> -> 2
      [] mes_str = <<"m", "a", "r">> -> 3
      [] mes_str = <<"a", "b", "r">> -> 4
      [] mes_str = <<"a", "p", "r">> -> 4
      [] mes_str = <<"m", "a", "i">> -> 5
      [] mes_str = <<"m", "a", "y">> -> 5
      [] mes_str = <<"j", "u", "n">> -> 6
      [] mes_str = <<"j", "u", "l">> -> 7
      [] mes_str = <<"a", "g", "o">> -> 8
      [] mes_str = <<"s", "e", "t">> -> 9
      [] mes_str = <<"s", "e", "p">> -> 9
      [] mes_str = <<"o", "u", "t">> -> 10
      [] mes_str = <<"o", "c", "t">> -> 10
      [] mes_str = <<"n", "o", "v">> -> 11
      [] mes_str = <<"d", "e", "z">> -> 12
      [] mes_str = <<"d", "e", "c">> -> 12
      [] OTHER -> 0

\* the mutant: the month itself instead of its quarter-end month
trimestre_end_map_identity(mes_num) == mes_num

\* trimestre_end_map = {1: 3, 2: 3, 3: 3, 4: 6, ..., 12: 12}
trimestre_end_map(mes_num) ==
    CASE mes_num \in {1, 2, 3} -> 3
      [] mes_num \in {4, 5, 6} -> 6
      [] mes_num \in {7, 8, 9} -> 9
      [] mes_num \in {10, 11, 12} -> 12
      [] OTHER -> mes_num

\* month_end = ((month - 1) // 3 + 1) * 3
month_end(month) == (((month - 1) \div 3) + 1) * 3

-----------------------------------------------------------------------------
(* pandas.to_datetime(text, dayfirst=True, errors='raise'), for the text     *)
(* forms the model feeds it: ISO "YYYY", "YYYY-MM-DD", "YYYY-MM-DD HH:MM:SS" *)
(* (parsed as ISO whatever dayfirst says) and "DD/MM/YYYY", "DD/MM/YY"       *)
(* (day first; month first only when the second number is no month).        *)
(* Anything else raises.  Result: [ok, y, m].                                *)

AllDigits(s, from, to) == \A i \in from..to : IsDigit(s[i])

DaysInMonth(y, m) ==
    CASE m \in {4, 6, 9, 11} -> 30
      [] m = 2 -> IF y % 4 = 0 THEN 29 ELSE 28
      [] OTHER -> 31

ValidDate(y, m, d) == m \in 1..12 /\ d >= 1 /\ d <= DaysInMonth(y, m)

NoDate == [ok |-> FALSE, y |-> 0, m |-> 0]

IsoYear(text) == Len(text) = 4 /\ AllDigits(text, 1, 4)

IsoDate(text) ==
    /\ Len(text) \in {10, 19}
    /\ AllDigits(text, 1, 4) /\ text[5] = "-"
    /\ AllDigits(text, 6, 7) /\ text[8] = "-"
    /\ AllDigits(text, 9, 10)
    /\ Len(text) = 19 =>
         /\ text[11] = " "
         /\ AllDigits(text, 12, 13) /\ text[14] = ":"
         /\ AllDigits(text, 15, 16) /\ text[17] = ":"
         /\ AllDigits(text, 18, 19)

SlashDate(text) ==
    /\ Len(text) \in {8, 10}
    /\ AllDigits(text, 1, 2) /\ text[3] = "/"
    /\ AllDigits(text, 4, 5) /\ text[6] = "/"
    /\ AllDigits(text, 7, Len(text))

\* a two-digit year of a date string: 00..49 is 20yy
TwoDigitYear(yy) == IF yy < 50 THEN 2000 + yy ELSE 1900 + yy

\* the mutant: dayfirst applied to ISO dates too ("YYYY-MM-DD" read as YYYY-DD-MM)
to_datetime_dayfirst_iso(text) ==
    IF IsoDate(text)
    THEN LET y == Int4(text[1], text[2], text[3], text[4])
             a == Int2(text[6], text[7])
             b == Int2(text[9], text[10])
         IN  IF ValidDate(y, b, a) THEN [ok |-> TRUE, y |-> y, m |-> b]
             ELSE IF ValidDate(y, a, b) THEN [ok |-> TRUE, y |-> y, m |-> a]
             ELSE NoDate
    ELSE NoDate

to_datetime(text) ==
    IF IsoYear(text)
    THEN [ok |-> TRUE, y |-> Int4(text[1], text[2], text[3], text[4]), m |-> 1]
    ELSE IF IsoDate(text)
    THEN LET y == Int4(text[1], text[2], text[3], text[4])
             m == Int2(text[6], text[7])
             d == Int2(text[9], text[10])
         IN  IF ValidDate(y, m, d) THEN [ok |-> TRUE, y |-> y, m |-> m] ELSE NoDate
    ELSE IF SlashDate(text)
    THEN LET a == Int2(text[1], text[2])
             b == Int2(text[4], text[5])
             y == IF Len(text) = 10
                  THEN Int4(text[7], text[8], text[9], text[10])
                  ELSE TwoDigitYear(Int2(text[7], text[8]))
         IN  IF ValidDate(y, b, a) THEN [ok |-> TRUE, y |-> y, m |-> b]
             ELSE IF ValidDate(y, a, b) THEN [ok |-> TRUE, y |-> y, m |-> a]
             ELSE NoDate
    ELSE NoDate

-----------------------------------------------------------------------------
(* format_data_base: two variants exist in the repository *)

\* bradesco_series.py (and, identically, santander_series.py, banco_brasil_series.py)
format_data_base_bradesco(l) ==
    IF l.typ # "str" THEN PyStr(l)
    ELSE LET text == Strip(l.s) IN
         IF MatchQuarter(text) THEN QuarterDate(text)
         ELSE IF MatchMonth(text)
              THEN LET mes_num == mes_map_dict(MonthStr(text))
                       ano_full == 2000 + MonthYear(text)
                   IN  IF mes_num = 0 THEN text
                       ELSE CanonDate(ano_full, trimestre_end_map(mes_num))
              ELSE text

format_data_base_santander(l) == format_data_base_bradesco(l)

format_data_base_banco_brasil(l) == format_data_base_bradesco(l)

\* itau_series.py (and, identically, banco_brasil_series_glue.py)
format_data_base_itau(l) ==
    IF l.typ = "ts" THEN CanonDate(l.y, month_end(l.m))
    ELSE IF l.typ = "str"
    THEN LET text == Strip(l.s)
             dt == to_datetime(text)
         IN  IF MatchQuarter(text) THEN QuarterDate(text)
             ELSE IF MatchMonth(text) /\ mes_map_dict(MonthStr(text)) # 0
                  THEN CanonDate(2000 + MonthYear(text),
                                 trimestre_end_map(mes_map_dict(MonthStr(text))))
             ELSE IF dt.ok THEN CanonDate(dt.y, month_end(dt.m))
             ELSE PyStr(l)
    ELSE PyStr(l)

format_data_base_glue(l) == format_data_base_itau(l)

Extractors == {"bradesco", "santander", "banco_brasil", "banco_brasil_glue", "itau"}

format_data_base(ext, l) ==
    CASE ext = "bradesco" -> format_data_base_bradesco(l)
      [] ext = "santander" -> format_data_base_santander(l)
      [] ext = "banco_brasil" -> format_data_base_banco_brasil(l)
      [] ext = "banco_brasil_glue" -> format_data_base_glue(l)
      [] ext = "itau" -> format_data_base_itau(l)

\* re.search(r"([1-4])T(\d{2})", file_name, flags=re.IGNORECASE): leftmost match
QuarterAt(s, i) == i + 3 <= Len(s) /\ MatchQuarter(SubSeq(s, i, i + 3))

\* the mutant: no quarter code is looked for in the file name
extract_data_divulgacao_none(name) == <<>>

\* the mutant: the last quarter code of the name is taken instead of the first
extract_data_divulgacao_last(name) ==
    IF \E i \in 1..Len(name) : QuarterAt(name, i)
    THEN LET i == CHOOSE i \in 1..Len(name) :
                      QuarterAt(name, i) /\ \A j \in (i + 1)..Len(name) : ~QuarterAt(name, j)
         IN  QuarterDate(SubSeq(name, i, i + 3))
    ELSE <<>>

\* extract_data_divulgacao (the same text in all five extractors); <<>> is ""
extract_data_divulgacao(name) ==
    IF \E i \in 1..Len(name) : QuarterAt(name, i)
    THEN LET i == CHOOSE i \in 1..Len(name) :
                      QuarterAt(name, i) /\ \A j \in 1..(i - 1) : ~QuarterAt(name, j)
         IN  QuarterDate(SubSeq(name, i, i + 3))
    ELSE <<>>

\* whether an attempt of format_data_base recognizes the label (the branches that
\* return a formatted date)
Recognizes(ext, l) ==
    LET text == Strip(l.s)
        byPattern == \/ MatchQuarter(text)
                     \/ (MatchMonth(text) /\ mes_map_dict(MonthStr(text)) # 0)
    IN  IF ext \in {"itau", "banco_brasil_glue"}
        THEN \/ l.typ = "ts"
             \/ (l.typ = "str" /\ (byPattern \/ to_datetime(text).ok))
        ELSE l.typ = "str" /\ byPattern

-----------------------------------------------------------------------------
(* The labels and file names the normalizer is run on *)

\* Portuguese month abbreviations, as the sheets write them
PtAbbr == <<<<"J", "a", "n">>,
           <<"F", "e", "v">>,
           <<"M", "a", "r">>,
           <<"A", "b", "r">>,
           <<"M", "a", "i">>,
           <<"J", "u", "n">>,
           <<"J", "u", "l">>,
           <<"A", "g", "o">>,
           <<"S", "e", "t">>,
           <<"O", "u", "t">>,
           <<"N", "o", "v">>,
           <<"D", "e", "z">>>>

\* English month abbreviations known to mes_map_dict ("Aug" is not: "Ago" stands in)
EnAbbr == <<<<"J", "a", "n">>,
           <<"F", "e", "b">>,
           <<"M", "a", "r">>,
           <<"A", "p", "r">>,
           <<"M", "a", "y">>,
           <<"J", "u", "n">>,
           <<"J", "u", "l">>,
           <<"A", "g", "o">>,
           <<"S", "e", "p">>,
           <<"O", "c", "t">>,
           <<"N", "o", "v">>,
           <<"D", "e", "c">>>>

UpperSeq(s) == [i \in 1..Len(s) |-> IF IsLower(s[i])
                                    THEN UpperCase[CHOOSE k \in 1..26 : LowerCase[k] = s[i]]
                                    ELSE s[i]]

LabelForms == {"quarter", "quarter_lower", "mon_slash", "mon", "mon_en", "mon_upper",
               "mon_padded", "dmy4", "dmy2", "iso", "ts", "ts_str"}

\* the days generated for a month: its first and its last
LabelDays(yy, m) == {1, DaysInMonth(2000 + yy, m)}

\* the label of form f for day d of month m of year 20yy
MkLabel(f, yy, m, d) ==
    CASE f = "quarter" -> StrLabel(<<Digits[(m \div 3) + 1], "T">> \o Fmt02d(yy))
      [] f = "quarter_lower" -> StrLabel(<<Digits[(m \div 3) + 1], "t">> \o Fmt02d(yy))
      [] f = "mon_slash" -> StrLabel(PtAbbr[m] \o <<"/">> \o Fmt02d(yy))
      [] f = "mon" -> StrLabel(PtAbbr[m] \o Fmt02d(yy))
      [] f = "mon_en" -> StrLabel(EnAbbr[m] \o <<"/">> \o Fmt02d(yy))
      [] f = "mon_upper" -> StrLabel(UpperSeq(PtAbbr[m]) \o <<"/">> \o Fmt02d(yy))
      [] f = "mon_padded" -> StrLabel(<<" ">> \o PtAbbr[m] \o <<"/">> \o Fmt02d(yy) \o <<" ">>)
      [] f = "dmy4" -> StrLabel(Fmt02d(d) \o <<"/">> \o Fmt02d(m) \o <<"/">> \o Fmt04d(2000 + yy))
      [] f = "dmy2" -> StrLabel(Fmt02d(d) \o <<"/">> \o Fmt02d(m) \o <<"/">> \o Fmt02d(yy))
      [] f = "iso" -> StrLabel(Fmt04d(2000 + yy) \o <<"-">> \o Fmt02d(m) \o <<"-">> \o Fmt02d(d))
      [] f = "ts" -> TsLabel(2000 + yy, m, d)
      [] f = "ts_str" -> StrLabel(PyStr(TsLabel(2000 + yy, m, d)))

\* the months a form can write: a quarter code names quarter-end months only
FormMonths(f) == IF f \in {"quarter", "quarter_lower"} THEN {3, 6, 9, 12} ELSE 1..12

\* the days a form can write: only the day-bearing forms vary it
FormDays(f, yy, m) ==
    IF f \in {"dmy4", "dmy2", "iso", "ts", "ts_str"} THEN LabelDays(yy, m) ELSE {1}

\* labels that denote no date
JunkLabels == {
    StrLabel(<<"T", "o", "t", "a", "l">>),
    StrLabel(<<" ", "T", "o", "t", "a", "l", " ">>),
    StrLabel(<<"X", "y", "z", "2", "5">>),
    StrLabel(<<"x", "y", "z", "/", "2", "5">>),
    StrLabel(<<"X", "y", "z", "2", "5", " ">>),
    StrLabel(<<>>),
    IntLabel(2000 + MaxYear) }

\* file names: [name, q, yy] with q, yy the quarter code the name carries (0: none)
File_rel_1T25 ==
    [name |-> <<"r", "e", "l", "_", "1", "T", "2", "5", ".", "x", "l", "s", "x">>, q |-> 1, yy |-> 25]

File_4t24_bb ==
    [name |-> <<"4", "t", "2", "4", "_", "b", "b", ".", "x", "l", "s", "x">>, q |-> 4, yy |-> 24]

File_s2T25_3T25 ==
    [name |-> <<"s", "2", "T", "2", "5", "_", "3", "T", "2", "5", ".", "x", "l", "s", "x">>, q |-> 2, yy |-> 25]

File_series ==
    [name |-> <<"s", "e", "r", "i", "e", "s", ".", "x", "l", "s", "x">>, q |-> 0, yy |-> 0]

File_5T25_T25 ==
    [name |-> <<"5", "T", "2", "5", "_", "T", "2", "5", ".", "x", "l", "s", "x">>, q |-> 0, yy |-> 0]

FileNames == {File_rel_1T25, File_4t24_bb, File_s2T25_3T25, File_series, File_5T25_T25}

-----------------------------------------------------------------------------
(* The normalizer run: extract_data_divulgacao on the file name, then        *)
(* format_data_base on a header label, then format_data_base on its result   *)

DateInit ==
    /\ extractor \in Extractors
    /\ \/ \E f \in LabelForms, yy \in Years :
            \E m \in FormMonths(f) : \E d \in FormDays(f, yy, m) :
                /\ label = MkLabel(f, yy, m, d)
                /\ labelForm = f
                /\ labelMonth = m
                /\ labelYear = 2000 + yy
       \/ /\ label \in JunkLabels
          /\ labelForm = "junk"
          /\ labelMonth = 0
          /\ labelYear = 0
    /\ \E fn \in FileNames :
          /\ file_name = fn.name
          /\ fileQuarter = [q |-> fn.q, yy |-> fn.yy]
    /\ formatted = <<>>
    /\ reformatted = <<>>
    /\ data_div = <<>>
    /\ pcDate = "start"

\* data_div = extract_data_divulgacao(file_path.name)
ExtractDataDivulgacao ==
    /\ pcDate = "start"
    /\ data_div' = extract_data_divulgacao(file_name)
    /\ pcDate' = "extracted"
    /\ UNCHANGED <<extractor, label, labelForm, labelMonth, labelYear, file_name,
                   fileQuarter, formatted, reformatted, fileVars, mainVars>>

\* formatted_base = format_data_base(data_base)
FormatDataBase ==
    /\ pcDate = "extracted"
    /\ formatted' = format_data_base(extractor, label)
    /\ pcDate' = "formatted"
    /\ UNCHANGED <<extractor, label, labelForm, labelMonth, labelYear, file_name,
                   fileQuarter, reformatted, data_div, fileVars, mainVars>>

\* format_data_base applied to its own result
FormatAgain ==
    /\ pcDate = "formatted"
    /\ reformatted' = format_data_base(extractor, StrLabel(formatted))
    /\ pcDate' = "reformatted"
    /\ UNCHANGED <<extractor, label, labelForm, labelMonth, labelYear, file_name,
                   fileQuarter, formatted, data_div, fileVars, mainVars>>

DateNext == ExtractDataDivulgacao \/ FormatDataBase \/ FormatAgain

\* the extraction driver is not running
FileIdle ==
    /\ sheets = <<>>
    /\ sheet_targets = <<>>
    /\ sheet_map = <<>>
    /\ target_i = 0
    /\ records = <<>>
    /\ pcFile = "idle"
    /\ excel_files = <<>>
    /\ file_i = 0
    /\ all_records = <<>>
    /\ outcomes = <<>>

\* the normalizer is not run on its own
DateIdle ==
    /\ label = StrLabel(<<>>)
    /\ labelForm = "junk"
    /\ labelMonth = 0
    /\ labelYear = 0
    /\ formatted = <<>>
    /\ reformatted = <<>>
    /\ pcDate = "idle"



-----------------------------------------------------------------------------
(* Cells and values.  A cell of a sheet read with header=None is text, a     *)
(* number, a native date or empty (NaN); the records StrLabel, IntLabel,     *)
(* TsLabel above are the first three.  A numeric value is [num, scale]: the  *)
(* number num / 10^scale (1234.56 is [num |-> 123456, scale |-> 2]).         *)

NanCell == [typ |-> "nan", s |-> <<>>, y |-> 0, m |-> 0, d |-> 0, n |-> 0]

\* pd.isna(cell)
IsNa(c) == c.typ = "nan"

\* isinstance(cell, (int, float)) and not pd.isna(cell)
IsNumber(c) == c.typ = "int"

Num(n, scale) == [num |-> n, scale |-> scale]

\* s.replace(".", "")
RemoveDots(s) == SelectSeq(s, LAMBDA c : c # ".")

\* s.replace(",", ".")
CommaToDot(s) == [i \in 1..Len(s) |-> IF s[i] = "," THEN "." ELSE s[i]]

\* float(text) for plain decimal text: digits with at most one "." and an optional
\* sign (exponents, "inf", "nan" and "_" are not used by any cell here); [ok, v]
ParseFloat(text) ==
    LET t == Strip(text)
        neg == t # <<>> /\ t[1] = "-"
        u == IF t # <<>> /\ t[1] \in {"-", "+"} THEN Tail(t) ELSE t
        dots == {i \in 1..Len(u) : u[i] = "."}
        digs == SelectSeq(u, LAMBDA c : c # ".")
        wellFormed == /\ Cardinality(dots) <= 1
                      /\ digs # <<>>
                      /\ \A i \in 1..Len(digs) : IsDigit(digs[i])
        scale == IF dots = {} THEN 0 ELSE Len(u) - (CHOOSE i \in dots : TRUE)
        mag == DigitsValue(digs)
    IN  IF wellFormed
        THEN [ok |-> TRUE, v |-> Num(IF neg THEN 0 - mag ELSE mag, scale)]
        ELSE [ok |-> FALSE, v |-> Num(0, 0)]

\* the mutant: float(str(value).replace(",", ".")), the dots kept
LocaleFloat_dots_kept(c) == ParseFloat(CommaToDot(PyStr(c)))

\* float(str(value).replace(".", "").replace(",", "."))
LocaleFloat(c) == ParseFloat(CommaToDot(RemoveDots(PyStr(c))))

-----------------------------------------------------------------------------
(* Stable sort of a sequence of [k, v] items by their integer-tuple keys k:  *)
(* sorted(..., key=...)                                                      *)

RECURSIVE LexLess(_, _)
LexLess(a, b) ==
    IF a = <<>> \/ b = <<>> THEN FALSE
    ELSE IF Head(a) # Head(b) THEN Head(a) < Head(b)
    ELSE LexLess(Tail(a), Tail(b))

\* x goes after every item whose key is not greater
RECURSIVE InsertAfterEquals(_, _)
InsertAfterEquals(x, sorted) ==
    IF sorted = <<>> THEN <<x>>
    ELSE IF LexLess(x.k, Head(sorted).k) THEN <<x>> \o sorted
    ELSE <<Head(sorted)>> \o InsertAfterEquals(x, Tail(sorted))

RECURSIVE StableSort(_)
StableSort(items) ==
    IF items = <<>> THEN <<>>
    ELSE InsertAfterEquals(items[Len(items)], StableSort(SubSeq(items, 1, Len(items) - 1)))

-----------------------------------------------------------------------------
(* Name normalizer and sheet resolver *)

\* NFKD decomposition with the combining marks dropped, per character
StripAccent(c) ==
    CASE c = "Í" -> "I"
      [] c = "í" -> "i"
      [] c = "é" -> "e"
      [] c = "ç" -> "c"
      [] c = "ã" -> "a"
      [] OTHER -> c

\* the mutant: normalize_name without the lower-casing
normalize_name_case_kept(name) ==
    LET without_accents == [i \in 1..Len(name) |-> StripAccent(name[i])]
    IN  SelectSeq(without_accents, LAMBDA c : ~(IsSpace(c) \/ c = "-"))

\* normalize_name: accents off, [\s\-]+ removed, lower case
normalize_name(name) ==
    LET without_accents == [i \in 1..Len(name) |-> StripAccent(name[i])]
        cleaned == SelectSeq(without_accents, LAMBDA c : ~(IsSpace(c) \/ c = "-"))
    IN  [i \in 1..Len(cleaned) |-> Lower(cleaned[i])]

\* sheet_map[normalize_name(sh)] = sh for sh in xl.sheet_names: a dict keeps the
\* position of a key's first insertion and the value of its last
RECURSIVE BuildSheetMap(_, _)
BuildSheetMap(sheet_names, acc) ==
    IF sheet_names = <<>> THEN acc
    ELSE LET sh == Head(sheet_names)
             norm == normalize_name(sh)
             hit == {k \in 1..Len(acc) : acc[k].norm = norm}
         IN  BuildSheetMap(Tail(sheet_names),
                 IF hit = {}
                 THEN Append(acc, [norm |-> norm, real |-> sh])
                 ELSE [k \in 1..Len(acc) |-> IF k \in hit
                                             THEN [norm |-> norm, real |-> sh]
                                             ELSE acc[k]])

\* needle in hay
Contains(hay, needle) ==
    \E i \in 1..(Len(hay) - Len(needle) + 1) : SubSeq(hay, i, i + Len(needle) - 1) = needle

\* hay.endswith(needle)
EndsWith(hay, needle) ==
    Len(needle) <= Len(hay) /\ SubSeq(hay, Len(hay) - Len(needle) + 1, Len(hay)) = needle

\* the mutant: candidate_key without the ends-with flag
candidate_key_length_only(name, target_norm) == <<0, Len(normalize_name(name))>>

\* candidate_key(name) = (not norm.endswith(target_norm), len(norm)); False < True
candidate_key(name, target_norm) ==
    LET norm == normalize_name(name)
    IN  <<IF EndsWith(norm, target_norm) THEN 0 ELSE 1, Len(norm)>>

\* the real names of the sheets whose normalized name contains the target, in
\* sheet_map order
candidate_names(smap, target_norm) ==
    LET hits == SelectSeq(smap, LAMBDA e : Contains(e.norm, target_norm))
    IN  [i \in 1..Len(hits) |-> hits[i].real]

\* matched_name = sorted(candidate_names, key=candidate_key)[0]
matched_name(smap, target) ==
    LET target_norm == normalize_name(target)
        cands == candidate_names(smap, target_norm)
        keyed == [i \in 1..Len(cands) |->
                     [k |-> candidate_key(cands[i], target_norm), v |-> cands[i]]]
    IN  StableSort(keyed)[1].v

-----------------------------------------------------------------------------
(* Header/date-column locator.  A grid is a sequence of rows, a row a         *)
(* sequence of cells; rows and columns are numbered from 1 here and from 0   *)
(* in the code.                                                              *)

\* (^[A-Za-zÀ-ÿ]{3}/?\d{2}$)
MonthPattern(t) ==
    \/ Len(t) = 5 /\ IsLetter(t[1]) /\ IsLetter(t[2]) /\ IsLetter(t[3])
                  /\ IsDigit(t[4]) /\ IsDigit(t[5])
    \/ Len(t) = 6 /\ IsLetter(t[1]) /\ IsLetter(t[2]) /\ IsLetter(t[3])
                  /\ t[4] = "/" /\ IsDigit(t[5]) /\ IsDigit(t[6])

\* (^[1-4]T\d{2}$)
QuarterPattern(t) == Len(t) = 4 /\ MatchQuarter(t)

\* (^\d{1,2}/\d{2}/\d{2,4}$)
SlashPattern(t) ==
    \E a \in {1, 2} :
        /\ Len(t) \in (a + 6)..(a + 8)
        /\ AllDigits(t, 1, a) /\ t[a + 1] = "/"
        /\ AllDigits(t, a + 2, a + 3) /\ t[a + 4] = "/"
        /\ AllDigits(t, a + 5, Len(t))

\* (^\d{4}-\d{2}-\d{2}): a prefix
IsoPrefixPattern(t) ==
    /\ Len(t) >= 10
    /\ AllDigits(t, 1, 4) /\ t[5] = "-" /\ AllDigits(t, 6, 7) /\ t[8] = "-"
    /\ AllDigits(t, 9, 10)

\* whether guess_header_row counts the cell as a date label.  bradesco, santander and
\* banco_brasil know the month and quarter patterns on text cells; itau and
\* banco_brasil_glue also count native dates, day/month/year and ISO text
DateLike(ext, c) ==
    LET t == Strip(c.s)
    IN  IF ext \in {"itau", "banco_brasil_glue"}
        THEN \/ c.typ = "ts"
             \/ c.typ = "str" /\ (MonthPattern(t) \/ QuarterPattern(t)
                                  \/ SlashPattern(t) \/ IsoPrefixPattern(t))
        ELSE c.typ = "str" /\ (MonthPattern(t) \/ QuarterPattern(t))

DateLikeCount(ext, row) == Cardinality({j \in 1..Len(row) : DateLike(ext, row[j])})

Min(S) == CHOOSE x \in S : \A y \in S : x <= y

\* for i, row in df.iterrows(): the first row from row i on with at least `required`
\* date-like cells; 0: the loop ends with header_idx still None
RECURSIVE ScanRows(_, _, _, _)
ScanRows(ext, df, required, i) ==
    IF i > Len(df) THEN 0
    ELSE IF DateLikeCount(ext, df[i]) >= required THEN i
    ELSE ScanRows(ext, df, required, i + 1)

\* the mutant: the scan is made once, for one date-like cell
header_idx_first_dated(ext, df) == ScanRows(ext, df, 1, 1)

\* for required in (2, 1): the scan for two, then the scan for one; 0: none (the code
\* raises ValueError)
header_idx(ext, df) ==
    LET two == ScanRows(ext, df, 2, 1)
    IN  IF two # 0 THEN two ELSE ScanRows(ext, df, 1, 1)

\* the first date-like cell of the header; else the first non-empty column after
\* column 0; else column 1 (columns 1 and 2 here)
first_date_col(ext, header) ==
    LET dated == {j \in 1..Len(header) : DateLike(ext, header[j])}
        filled == {j \in 2..Len(header) : ~IsNa(header[j])}
    IN  IF dated # {} THEN Min(dated) ELSE IF filled # {} THEN Min(filled) ELSE 2

-----------------------------------------------------------------------------
(* Wide-to-long transformer *)

RECURSIVE JoinParts(_)
\* " - ".join(attr_parts)
JoinParts(parts) ==
    IF Len(parts) = 1 THEN parts[1]
    ELSE parts[1] \o <<" ", "-", " ">> \o JoinParts(Tail(parts))

\* the stripped non-empty text cells left of first_date_col
attr_parts(row, fdc) ==
    LET left == SubSeq(row, 1, fdc - 1)
        texts == SelectSeq(left, LAMBDA c : c.typ = "str" /\ Strip(c.s) # <<>>)
    IN  [i \in 1..Len(texts) |-> Strip(texts[i].s)]

\* has_value: bradesco, santander and banco_brasil look for a native number only;
\* itau and banco_brasil_glue also accept text that parses
has_value(ext, row, fdc) ==
    \E j \in fdc..Len(row) :
        \/ IsNumber(row[j])
        \/ /\ ext \in {"itau", "banco_brasil_glue"}
           /\ row[j].typ = "str"
           /\ LocaleFloat(row[j]).ok

\* whether the data row passes both checks and gets a row_id
RowKept(ext, row, fdc) == attr_parts(row, fdc) # <<>> /\ has_value(ext, row, fdc)

\* the value emitted for a cell: [ok, v]
Coerce(c) ==
    IF IsNumber(c) THEN [ok |-> TRUE, v |-> Num(c.n, 0)] ELSE LocaleFloat(c)

\* the date label of a tuple: banco_brasil_glue keeps the header cell, the others
\* take str(date_label)
TupleLabel(ext, c) == IF ext = "banco_brasil_glue" THEN c ELSE StrLabel(PyStr(c))

\* the tuples of one kept row, in column order; grid_row and grid_col are ghost
\* fields, the place of the value cell in the grid
RowTuples(ext, header, row, fdc, row_id, grid_row) ==
    LET cols == SelectSeq([j \in 1..(Len(header) - fdc + 1) |-> fdc + j - 1],
                          LAMBDA j : /\ ~IsNa(header[j])
                                     /\ ~IsNa(row[j])
                                     /\ Coerce(row[j]).ok)
    IN  [k \in 1..Len(cols) |->
            [attr_name |-> JoinParts(attr_parts(row, fdc)),
             date_label |-> TupleLabel(ext, header[cols[k]]),
             value |-> Coerce(row[cols[k]]).v,
             row_id |-> row_id,
             grid_row |-> grid_row,
             grid_col |-> cols[k]]]

\* the loop over the rows after the header; attr_counter numbers the kept rows from 0
RECURSIVE ParseRows(_, _, _, _, _, _)
ParseRows(ext, df, hdr, fdc, i, attr_counter) ==
    IF i > Len(df) THEN <<>>
    ELSE IF RowKept(ext, df[i], fdc)
         THEN RowTuples(ext, df[hdr], df[i], fdc, attr_counter, i)
              \o ParseRows(ext, df, hdr, fdc, i + 1, attr_counter + 1)
         ELSE ParseRows(ext, df, hdr, fdc, i + 1, attr_counter)

\* parse_sheet: [ok, tuples]; ok is FALSE when guess_header_row raises
parse_sheet(ext, df) ==
    LET hdr == header_idx(ext, df)
    IN  IF hdr = 0 THEN [ok |-> FALSE, tuples |-> <<>>]
        ELSE [ok |-> TRUE,
              tuples |-> ParseRows(ext, df, hdr, first_date_col(ext, df[hdr]), hdr + 1, 0)]

-----------------------------------------------------------------------------
(* Extraction driver: process_file (process_s3_file in banco_brasil_glue) *)

\* the bank_name each main passes
bank_name(ext) == IF ext = "banco_brasil_glue" THEN "banco_brasil" ELSE ext

\* attr_counts.get(attr_name, 0)
GetCount(attr_counts, attr_name) ==
    IF attr_name \in DOMAIN attr_counts THEN attr_counts[attr_name] ELSE 0

\* the mutant: the row is numbered with the count before it is incremented
suffix_of_count(count) ==
    IF count > 0 THEN <<" ", "#">> \o DecStr(count) ELSE <<>>

\* suffix = f" #{count + 1}" if count > 0 else ""
suffix(count) ==
    IF count > 0 THEN <<" ", "#">> \o DecStr(count + 1) ELSE <<>>

\* the mutant: every tuple is taken for the first of a new row
row_id_always_new(row_id_suffix, row_id) == TRUE

\* row_id not in row_id_suffix
row_id_is_new(row_id_suffix, row_id) == row_id \notin DOMAIN row_id_suffix

\* the record appended for one tuple; raw_name, grid_row, grid_col and target are ghost
\* fields: the name before the suffix, the grid cell and the target the record comes from
MkRecord(ext, matched, tup, sfx, dd, fname, t) ==
    LET base == [pagina          |-> Strip(matched),
                 nom_inst        |-> bank_name(ext),
                 nom_atbt        |-> tup.attr_name \o sfx,
                 data_base       |-> format_data_base(ext, tup.date_label),
                 vlr_atbt        |-> tup.value,
                 data_divulgacao |-> dd,
                 arquivo_origem  |-> fname,
                 raw_name        |-> tup.attr_name,
                 grid_row        |-> tup.grid_row,
                 grid_col        |-> tup.grid_col,
                 target          |-> t]
    IN  IF ext = "banco_brasil_glue"
        THEN base @@ [data_base_original |-> PyStr(tup.date_label)]
        ELSE base @@ [data_divulgacao_dup |-> dd]

\* the loop over the parsed tuples, from tuple k on
RECURSIVE EmitRecords(_, _, _, _, _, _, _, _, _)
EmitRecords(ext, parsed, k, attr_counts, row_id_suffix, matched, dd, fname, t) ==
    IF k > Len(parsed) THEN <<>>
    ELSE LET tup == parsed[k]
             fresh == row_id_is_new(row_id_suffix, tup.row_id)
             count == GetCount(attr_counts, tup.attr_name)
             counts2 == IF fresh THEN (tup.attr_name :> (count + 1)) @@ attr_counts
                        ELSE attr_counts
             suffixes2 == IF fresh THEN (tup.row_id :> suffix(count)) @@ row_id_suffix
                          ELSE row_id_suffix
         IN  <<MkRecord(ext, matched, tup, suffixes2[tup.row_id], dd, fname, t)>>
             \o EmitRecords(ext, parsed, k + 1, counts2, suffixes2, matched, dd, fname, t)

\* xl.sheet_names
SheetNames(wb) == [i \in 1..Len(wb) |-> wb[i].name]

\* xl.parse(name, header=None)
SheetGrid(wb, name) == wb[CHOOSE i \in 1..Len(wb) : wb[i].name = name].grid

\* --- the workbooks, file names and target lists the driver is run on

Receita == <<"R", "e", "c", "e", "i", "t", "a">>
Custo == <<"C", "u", "s", "t", "o">>

\* header rows: an empty first cell, then two date columns
HeaderRows == {
    <<NanCell, StrLabel(<<"M", "a", "r", "/", "2", "5">>), StrLabel(<<"J", "u", "n", "/", "2", "5">>)>>,
    <<NanCell, StrLabel(<<"J", "a", "n", "/", "2", "5">>), StrLabel(<<"M", "a", "r", "/", "2", "5">>)>>,
    <<NanCell, StrLabel(<<"1", "T", "2", "5">>), NanCell>>,
    <<NanCell, StrLabel(<<"3", "1", "/", "0", "3", "/", "2", "0", "2", "5">>), StrLabel(<<"3", "0", "/", "0", "6", "/", "2", "0", "2", "5">>)>> }

\* data rows: a name (or none) and a value (or none) under each date column
DataRows == {
    <<StrLabel(Receita), IntLabel(100), IntLabel(200)>>,
    <<StrLabel(Receita), IntLabel(100), NanCell>>,
    <<StrLabel(Receita), NanCell, NanCell>>,
    <<StrLabel(Custo), IntLabel(100), IntLabel(200)>>,
    <<NanCell, IntLabel(100), IntLabel(200)>> }

RowLists == UNION {[1..n -> DataRows] : n \in 0..MaxDataRows}

Grids == {<<h>> \o rows : h \in HeaderRows, rows \in RowLists}

SheetName == <<"C", "a", "r", "t", "e", "i", "r", "a", " ">>

TargetLists == {
    <<<<"C", "a", "r", "t", "e", "i", "r", "a">>>>,
    <<<<"C", "a", "r", "t", "e", "i", "r", "a">>, <<"c", "a", "r", "t", "e", "i", "r", "a", " ">>>>,
    <<<<"O", "u", "t", "r", "a">>, <<"C", "a", "r", "t", "e", "i", "r", "a">>>> }

WorkbookFiles == {File_rel_1T25}

\* main calls process_file on the first of excel_files
BeginRun ==
    /\ file_i = 1
    /\ file_name = excel_files[1].name
    /\ fileQuarter = [q |-> excel_files[1].q, yy |-> excel_files[1].yy]
    /\ sheets = excel_files[1].sheets
    /\ data_div = <<>>
    /\ sheet_map = <<>>
    /\ target_i = 0
    /\ records = <<>>
    /\ all_records = <<>>
    /\ outcomes = <<>>
    /\ pcFile = "start"

\* a workbook file: its name, the ghost quarter of the name, and its sheets
ExcelFile(fn, wb) == [name |-> fn.name, q |-> fn.q, yy |-> fn.yy, sheets |-> wb]

ExtractInit ==
    /\ extractor \in Extractors
    /\ \E fn \in WorkbookFiles, g \in Grids :
          excel_files = <<ExcelFile(fn, <<[name |-> SheetName, grid |-> g]>>)>>
    /\ sheet_targets \in TargetLists
    /\ BeginRun

\* ghost: the entry of outcomes for the target in hand; header is the row
\* guess_header_row found (0: it raised, -1: it was not called)
Outcome(matched, status, header) ==
    [file |-> file_i, target |-> target_i, matched |-> matched, status |-> status,
     header |-> header]

\* data_div = extract_data_divulgacao(file_path.name); pd.ExcelFile opens the workbook
\* and sheet_map is built
OpenWorkbook ==
    /\ pcFile = "start"
    /\ data_div' = extract_data_divulgacao(file_name)
    /\ sheet_map' = BuildSheetMap(SheetNames(sheets), <<>>)
    /\ target_i' = 1
    /\ pcFile' = "targets"
    /\ UNCHANGED <<extractor, file_name, fileQuarter, sheets, sheet_targets, records,
                   excel_files, file_i, all_records, outcomes, dateVars, mainVars>>

\* pd.ExcelFile raises: the empty records list is returned
OpenFails ==
    /\ pcFile = "start"
    /\ data_div' = extract_data_divulgacao(file_name)
    /\ pcFile' = "returned"
    /\ outcomes' = Append(outcomes, Outcome(<<>>, "open_failed", -1))
    /\ UNCHANGED <<extractor, file_name, fileQuarter, sheets, sheet_targets, sheet_map,
                   target_i, records, excel_files, file_i, all_records, dateVars, mainVars>>

\* one iteration of the loop over sheet_targets: resolve the target, read and parse
\* the sheet, append its records
ProcessTarget ==
    /\ pcFile = "targets"
    /\ target_i <= Len(sheet_targets)
    /\ LET target == sheet_targets[target_i]
           cands == candidate_names(sheet_map, normalize_name(target))
       IN  IF cands = <<>>
           THEN /\ UNCHANGED records
                /\ outcomes' = Append(outcomes, Outcome(<<>>, "no_candidate", -1))
           ELSE LET matched == matched_name(sheet_map, target)
                    parsed == parse_sheet(extractor, SheetGrid(sheets, matched))
                IN  IF ~parsed.ok
                    THEN /\ UNCHANGED records
                         /\ outcomes' = Append(outcomes, Outcome(matched, "parse_failed", 0))
                    ELSE /\ records' = records \o EmitRecords(extractor, parsed.tuples, 1,
                                                              <<>>, <<>>, matched, data_div,
                                                              file_name, target_i)
                         /\ outcomes' = Append(outcomes, Outcome(matched, "parsed",
                                                                header_idx(extractor, SheetGrid(sheets, matched))))
    /\ target_i' = target_i + 1
    /\ UNCHANGED <<extractor, file_name, fileQuarter, data_div, sheets, sheet_targets,
                   sheet_map, pcFile, excel_files, file_i, all_records, dateVars, mainVars>>

\* the mutant: a sheet that cannot be read ends the file with nothing
ReadFails_discards_file ==
    /\ pcFile = "targets"
    /\ target_i <= Len(sheet_targets)
    /\ candidate_names(sheet_map, normalize_name(sheet_targets[target_i])) # <<>>
    /\ outcomes' = Append(outcomes, Outcome(matched_name(sheet_map, sheet_targets[target_i]),
                                            "read_failed", -1))
    /\ records' = <<>>
    /\ pcFile' = "returned"
    /\ UNCHANGED <<extractor, file_name, fileQuarter, data_div, sheets, sheet_targets,
                   sheet_map, target_i, excel_files, file_i, all_records, dateVars, mainVars>>

\* xl.parse raises for the matched sheet: the target is skipped
ReadFails ==
    /\ pcFile = "targets"
    /\ target_i <= Len(sheet_targets)
    /\ candidate_names(sheet_map, normalize_name(sheet_targets[target_i])) # <<>>
    /\ outcomes' = Append(outcomes, Outcome(matched_name(sheet_map, sheet_targets[target_i]),
                                            "read_failed", -1))
    /\ target_i' = target_i + 1
    /\ UNCHANGED <<extractor, file_name, fileQuarter, data_div, sheets, sheet_targets,
                   sheet_map, records, pcFile, excel_files, file_i, all_records, dateVars,
                   mainVars>>

\* return records
ReturnRecords ==
    /\ pcFile = "targets"
    /\ target_i > Len(sheet_targets)
    /\ pcFile' = "returned"
    /\ UNCHANGED <<extractor, file_name, fileQuarter, data_div, sheets, sheet_targets,
                   sheet_map, target_i, records, excel_files, file_i, all_records, outcomes,
                   dateVars, mainVars>>

\* main: all_records.extend(records), then process_file is called on the next of
\* excel_files, or the loop over the files ends
ExtendAllRecords ==
    /\ pcFile = "returned"
    /\ all_records' = all_records \o records
    /\ IF file_i < Len(excel_files)
       THEN /\ file_i' = file_i + 1
            /\ file_name' = excel_files[file_i + 1].name
            /\ fileQuarter' = [q |-> excel_files[file_i + 1].q, yy |-> excel_files[file_i + 1].yy]
            /\ sheets' = excel_files[file_i + 1].sheets
            /\ data_div' = <<>>
            /\ sheet_map' = <<>>
            /\ target_i' = 0
            /\ records' = <<>>
            /\ pcFile' = "start"
       ELSE /\ pcFile' = "done"
            /\ UNCHANGED <<file_i, file_name, fileQuarter, sheets, data_div, sheet_map,
                           target_i, records>>
    /\ UNCHANGED <<extractor, sheet_targets, excel_files, outcomes, dateVars, mainVars>>

ExtractNext ==
    OpenWorkbook \/ OpenFails \/ ProcessTarget \/ ReadFails \/ ReturnRecords \/ ExtendAllRecords


-----------------------------------------------------------------------------
(* The driver run on workbooks of several sheets, each target label given     *)
(* twice: in its canonical spelling and in an accent, case or whitespace      *)
(* variant of it.                                                              *)

MaxSheets == 2

\* sheet names of a workbook
ResolveSheetNames == {
    <<"Í", "n", "d", "i", "c", "e", "s", " ", "d", "e", " ", "A", "t", "r", "a", "s", "o">>,
    <<"Í", "n", "d", "i", "c", "e", "s", " ", "d", "e", " ", "A", "t", "r", "a", "s", "o", " ", "2">>,
    <<"1", "2", "-", " ", "Í", "n", "d", "i", "c", "e", "s", " ", "d", "e", " ", "A", "t", "r", "a", "s", "o">>,
    <<"I", "n", "d", "i", "c", "e", "s", "-", "d", "e", "-", "A", "t", "r", "a", "s", "o">> }

\* <<canonical spelling, variant>>
TargetVariants == {
    <<<<"Í", "n", "d", "i", "c", "e", "s", " ", "d", "e", " ", "A", "t", "r", "a", "s", "o">>, <<"i", "n", "d", "i", "c", "e", "s", " ", "d", "e", " ", "a", "t", "r", "a", "s", "o">>>>,
    <<<<"Í", "n", "d", "i", "c", "e", "s", " ", "d", "e", " ", "A", "t", "r", "a", "s", "o">>, <<"Í", "N", "D", "I", "C", "E", "S", " ", " ", "D", "E", " ", "A", "T", "R", "A", "S", "O">>>>,
    <<<<"Í", "n", "d", "i", "c", "e", "s", " ", "d", "e", " ", "A", "t", "r", "a", "s", "o">>, <<" ", "I", "n", "d", "i", "c", "e", "s", " ", "d", "e", " ", "A", "t", "r", "a", "s", "o", " ">>>>,
    <<<<"O", "u", "t", "r", "a">>, <<"o", "u", "t", "r", "a">>>> }

\* the one grid every sheet of these workbooks holds
ResolveGrid ==
    <<<<NanCell, StrLabel(<<"M", "a", "r", "/", "2", "5">>), StrLabel(<<"J", "u", "n", "/", "2", "5">>)>>,
      <<StrLabel(Receita), IntLabel(100), IntLabel(200)>>>>

\* the lists of up to n distinct sheet names
RECURSIVE SheetNameLists(_)
SheetNameLists(n) ==
    IF n = 0 THEN {<<>>}
    ELSE LET shorter == SheetNameLists(n - 1)
         IN  shorter \cup {Append(l, sh) : l \in {x \in shorter : Len(x) = n - 1},
                                           sh \in ResolveSheetNames}

HasNoRepeat(l) == \A i, j \in 1..Len(l) : l[i] = l[j] => i = j

ResolveInit ==
    /\ extractor \in Extractors
    /\ \E names \in {l \in SheetNameLists(MaxSheets) : HasNoRepeat(l)} :
          excel_files = <<ExcelFile(File_rel_1T25,
                                    [i \in 1..Len(names) |-> [name |-> names[i], grid |-> ResolveGrid]])>>
    /\ sheet_targets \in TargetVariants
    /\ BeginRun


-----------------------------------------------------------------------------
(* The driver run on one-sheet workbooks whose grid is any stack of up to     *)
(* MaxGridRows rows: rows with no, one or two date labels in any order, and   *)
(* data rows with native numbers and text values.                             *)

MaxGridRows == 3

LocaleText == <<"1", ".", "2", "3", "4", ",", "5", "6">>
JunkText == <<"a", "b", "c">>

SheetRows == {
    <<NanCell, StrLabel(<<"1", "T", "2", "5">>), NanCell>>,
    <<StrLabel(<<>>), StrLabel(<<"M", "a", "r", "/", "2", "5">>), StrLabel(<<"J", "u", "n", "/", "2", "5">>)>>,
    <<NanCell, TsLabel(2025, 3, 31), TsLabel(2025, 6, 30)>>,
    <<StrLabel(Receita), IntLabel(100), IntLabel(200)>>,
    <<StrLabel(Receita), StrLabel(LocaleText), IntLabel(200)>>,
    <<StrLabel(Custo), StrLabel(JunkText), IntLabel(200)>>,
    <<StrLabel(Custo), StrLabel(LocaleText), StrLabel(JunkText)>> }

\* the grids of up to n rows
RECURSIVE SheetGrids(_)
SheetGrids(n) ==
    IF n = 0 THEN {<<>>}
    ELSE LET shorter == SheetGrids(n - 1)
         IN  shorter \cup {Append(g, r) : g \in {x \in shorter : Len(x) = n - 1},
                                          r \in SheetRows}

SheetInit ==
    /\ extractor \in Extractors
    /\ \E g \in SheetGrids(MaxGridRows) :
          excel_files = <<ExcelFile(File_rel_1T25, <<[name |-> SheetName, grid |-> g]>>)>>
    /\ sheet_targets = <<<<"C", "a", "r", "t", "e", "i", "r", "a">>>>
    /\ BeginRun


-----------------------------------------------------------------------------
(* main run on up to MaxFiles workbooks with two targets; a workbook has both *)
(* target sheets, or one of them without a header row, or only one of them.   *)

MaxFiles == 2

ResumoName == <<"R", "e", "s", "u", "m", "o">>

CustoGrid ==
    <<<<NanCell, StrLabel(<<"M", "a", "r", "/", "2", "5">>), StrLabel(<<"J", "u", "n", "/", "2", "5">>)>>,
      <<StrLabel(Custo), IntLabel(100), IntLabel(200)>>>>

NoHeaderGrid == <<<<StrLabel(Receita), IntLabel(100), IntLabel(200)>>>>

RunWorkbooks == {
    <<[name |-> SheetName, grid |-> ResolveGrid], [name |-> ResumoName, grid |-> CustoGrid]>>,
    <<[name |-> SheetName, grid |-> NoHeaderGrid], [name |-> ResumoName, grid |-> CustoGrid]>>,
    <<[name |-> ResumoName, grid |-> CustoGrid]>> }

\* sorted(input_dir.iterdir()): the file names in ascending order
RunFileNames == <<File_4t24_bb, File_rel_1T25, File_s2T25_3T25, File_series>>

RunTargets == <<<<"C", "a", "r", "t", "e", "i", "r", "a">>, <<"r", "e", "s", "u", "m", "o">>>>

RunInit ==
    /\ extractor \in Extractors
    /\ \E n \in 1..MaxFiles : \E wbs \in [1..n -> RunWorkbooks] :
          excel_files = [k \in 1..n |-> ExcelFile(RunFileNames[k], wbs[k])]
    /\ sheet_targets = RunTargets
    /\ BeginRun

-----------------------------------------------------------------------------
(* Consolidation (main.py).  A frame is a sequence of records in row order.   *)
(* Text fields are character sequences; read_csv reads an empty field as NaN, *)
(* so the empty sequence stands for NaN in a frame.                           *)

NaN == <<>>

\* the characters of the generated names in code point order
CodePoints == <<" ", "#", "-", ".">> \o Digits \o UpperCase \o <<"_">> \o LowerCase

Ord(c) == CHOOSE i \in 1..Len(CodePoints) : CodePoints[i] = c

\* a < b for two str values: at the first place where they differ a has the smaller
\* character, or a ends there
StrLess(a, b) ==
    \E i \in 1..Len(b) :
        /\ i <= Len(a) + 1
        /\ \A j \in 1..(i - 1) : a[j] = b[j]
        /\ (i = Len(a) + 1 \/ Ord(a[i]) < Ord(b[i]))

\* the order sort_values puts two values of a text column in: NaN goes last
ValueLess(a, b) == a # NaN /\ a # b /\ (b = NaN \/ StrLess(a, b))

\* pd.concat(frames, ignore_index=True)
RECURSIVE concat(_)
concat(fs) == IF fs = <<>> THEN <<>> ELSE Head(fs) \o concat(Tail(fs))

\* two rows agree on every column of subset (NaN equals NaN here)
SameOn(r1, r2, subset) == \A k \in 1..Len(subset) : r1[subset[k]] = r2[subset[k]]

\* the rows of df at the places in keep, in row order
TakeRows(df, keep) ==
    LET idx == SelectSeq([i \in 1..Len(df) |-> i], LAMBDA i : i \in keep)
    IN  [k \in 1..Len(idx) |-> df[idx[k]]]

\* df.drop_duplicates(subset=..., keep="last")
drop_duplicates_last(df, subset) ==
    TakeRows(df, {i \in 1..Len(df) :
                     ~\E j \in (i + 1)..Len(df) : SameOn(df[i], df[j], subset)})

\* the mutant: no row is dropped
drop_duplicates_none(df, subset) == df

\* the mutant: the last row of each group is kept instead of the first
drop_duplicates_first_as_last(df, subset) == drop_duplicates_last(df, subset)

\* df.drop_duplicates(subset=..., keep="first")
drop_duplicates_first(df, subset) ==
    TakeRows(df, {i \in 1..Len(df) :
                     ~\E j \in 1..(i - 1) : SameOn(df[i], df[j], subset)})

\* df.sort_values(by=col) on one text column: the default sort is not stable, so
\* rows with equal values come out in any order; the result is the set of the
\* orders it can produce, each a permutation of the row numbers
sort_values_orders(df, col) ==
    {p \in Permutations(1..Len(df)) :
        \A i, j \in 1..Len(df) : i < j => ~ValueLess(df[p[j]][col], df[p[i]][col])}

Reorder(df, p) == [i \in 1..Len(df) |-> df[p[i]]]

\* subset of load_series_historicas
SeriesKey == <<"pagina", "nom_inst", "nom_atbt", "data_base">>

\* load_series_historicas after the read loop, for one outcome p of the sort
load_series_historicas(fs, p) ==
    drop_duplicates_last(Reorder(concat(fs), p), SeriesKey)

\* by and subset of unify_origins
UnifyKey == <<"tipo", "nom_inst", "nom_ind", "nom_grup", "nom_atbt", "dat_base_info">>

\* the order sort_values puts two values of the column col in
ColumnLess(col, a, b) == IF col = "prioridade" THEN a < b ELSE ValueLess(a, b)

\* r1 sorts before r2 by the columns of by: they differ first in a column where r1
\* has the smaller value
RowLess(r1, r2, by) ==
    \E c \in 1..Len(by) :
        /\ \A d \in 1..(c - 1) : r1[by[d]] = r2[by[d]]
        /\ ColumnLess(by[c], r1[by[c]], r2[by[c]])

\* r goes after every row that does not sort after it
RECURSIVE InsertRow(_, _, _)
InsertRow(r, sorted, by) ==
    IF sorted = <<>> THEN <<r>>
    ELSE IF RowLess(r, Head(sorted), by) THEN <<r>> \o sorted
    ELSE <<Head(sorted)>> \o InsertRow(r, Tail(sorted), by)

\* df.sort_values(by=[...]) on several columns: a stable sort
RECURSIVE sort_values(_, _)
sort_values(df, by) ==
    IF df = <<>> THEN <<>>
    ELSE InsertRow(df[Len(df)], sort_values(SubSeq(df, 1, Len(df) - 1), by), by)

\* the frames unify_origins keeps: those that are not empty
NonEmpty(fs) == SelectSeq(fs, LAMBDA f : f # <<>>)

\* unify_origins
unify_origins(manual, origin, calc, historico) ==
    LET fs == NonEmpty(<<manual, origin, calc, historico>>)
    IN  IF fs = <<>> THEN <<>>
        ELSE drop_duplicates_first(sort_values(concat(fs), UnifyKey \o <<"prioridade">>),
                                   UnifyKey)

\* --- the series frames load_series_historicas is run on

\* the source files the series records come from: the release date of a record is
\* what extract_data_divulgacao gives for its file, and none when the name carries
\* no quarter code
SeriesSources == {File_rel_1T25, File_4t24_bb, File_series, File_5T25_T25}

SeriesRow(fn, attr, v) ==
    [pagina          |-> <<"C", "a", "r", "t", "e", "i", "r", "a">>,
     nom_inst        |-> <<"b", "r", "a", "d", "e", "s", "c", "o">>,
     nom_atbt        |-> attr,
     data_base       |-> <<"2", "0", "2", "5", "-", "0", "3", "-", "0", "1">>,
     vlr_atbt        |-> v,
     data_divulgacao |-> extract_data_divulgacao(fn.name),
     arquivo_origem  |-> fn.name]

\* the frames the n-th series file can hold: empty, or one record whose value is n
SeriesFrames(n) ==
    {<<>>} \cup {<<SeriesRow(fn, attr, n)>> : fn \in SeriesSources, attr \in {Receita, Custo}}

\* the frames of n series files, in reading order
RECURSIVE FrameLists(_)
FrameLists(n) ==
    IF n = 0 THEN {<<>>}
    ELSE {Append(fs, f) : fs \in FrameLists(n - 1), f \in SeriesFrames(n)}

SeriesInit ==
    /\ \E n \in 0..MaxSeriesFiles : frames \in FrameLists(n)
    /\ df_latest = <<>>
    /\ pcSeries = "start"

\* every file is missing or empty: the empty frame is returned
LoadSeriesEmpty ==
    /\ pcSeries = "start"
    /\ NonEmpty(frames) = <<>>
    /\ df_latest' = <<>>
    /\ pcSeries' = "loaded"
    /\ UNCHANGED <<frames, extractorVars, dateVars, fileVars, unifyVars>>

\* concat, sort_values, drop_duplicates
LoadSeries ==
    /\ pcSeries = "start"
    /\ NonEmpty(frames) # <<>>
    /\ \E p \in sort_values_orders(concat(NonEmpty(frames)), "data_divulgacao") :
          df_latest' = load_series_historicas(NonEmpty(frames), p)
    /\ pcSeries' = "loaded"
    /\ UNCHANGED <<frames, extractorVars, dateVars, fileVars, unifyVars>>

SeriesNext == LoadSeriesEmpty \/ LoadSeries

-----------------------------------------------------------------------------
(* Formula evaluation (main.py: evaluate_formula, process_calculados).  A    *)
(* base value is a number [typ, num, scale] (num / 10^scale, typ "int" or    *)
(* "float") or NaN; the result of eval is the exact fraction [n, d].         *)

IntValue(n) == [typ |-> "int", num |-> n, scale |-> 0]

FloatValue(num, scale) == [typ |-> "float", num |-> num, scale |-> scale]

Abs(n) == IF n < 0 THEN 0 - n ELSE n

Zeros(n) == [i \in 1..n |-> "0"]

\* str(v) for a value of the valor column: an int in decimal digits; a float in
\* repr form, fixed for a decimal exponent from -4 to 15 and scientific outside;
\* "nan" for NaN.  A float has no trailing zero in num unless scale is 0.
str_value(v) ==
    IF v = NaN THEN <<"n", "a", "n">>
    ELSE LET sign == IF v.num < 0 THEN <<"-">> ELSE <<>>
             ds == DecStr(Abs(v.num))
             exp10 == Len(ds) - 1 - v.scale
         IN  IF v.typ = "int" THEN sign \o ds
             ELSE IF v.num = 0 THEN sign \o <<"0", ".", "0">>
             ELSE IF exp10 >= -4 /\ exp10 < 16
                  THEN IF v.scale = 0 THEN sign \o ds \o <<".", "0">>
                       ELSE IF Len(ds) > v.scale
                            THEN sign \o SubSeq(ds, 1, Len(ds) - v.scale) \o <<".">>
                                      \o SubSeq(ds, Len(ds) - v.scale + 1, Len(ds))
                            ELSE sign \o <<"0", ".">> \o Zeros(v.scale - Len(ds)) \o ds
                  ELSE sign \o <<ds[1]>>
                            \o (IF Len(ds) > 1 THEN <<".">> \o Tail(ds) ELSE <<>>)
                            \o <<"e", IF exp10 < 0 THEN "-" ELSE "+">>
                            \o Fmt02d(Abs(exp10))

\* re.findall(r"\[(.*?)\]", formula): from each "[" to the nearest "]" after it
RECURSIVE FindTokens(_, _)
FindTokens(s, i) ==
    LET opens == {a \in i..Len(s) : s[a] = "["}
    IN  IF opens = {} THEN <<>>
        ELSE LET a == Min(opens)
                 closes == {b \in (a + 1)..Len(s) : s[b] = "]"}
             IN  IF closes = {} THEN <<>>
                 ELSE <<SubSeq(s, a + 1, Min(closes) - 1)>> \o FindTokens(s, Min(closes) + 1)

\* tok.split("|")
RECURSIVE SplitBar(_)
SplitBar(tok) ==
    LET bars == {i \in 1..Len(tok) : tok[i] = "|"}
    IN  IF bars = {} THEN <<tok>>
        ELSE <<SubSeq(tok, 1, Min(bars) - 1)>> \o SplitBar(SubSeq(tok, Min(bars) + 1, Len(tok)))

\* s.replace(pat, rep): every occurrence, left to right
RECURSIVE Replace(_, _, _)
Replace(s, pat, rep) ==
    IF Len(s) < Len(pat) THEN s
    ELSE IF SubSeq(s, 1, Len(pat)) = pat
         THEN rep \o Replace(SubSeq(s, Len(pat) + 1, Len(s)), pat, rep)
         ELSE <<s[1]>> \o Replace(Tail(s), pat, rep)

\* astype(str) of a text column
astype_str(v) == IF v = NaN THEN <<"n", "a", "n">> ELSE v

\* base_df.loc[mask, "valor"]: the values of the rows of the base that match the
\* reference, in row order
MaskedValues(base_df, tok_tipo, nom_inst, nom_ind, tok_grup, tok_atbt, date) ==
    LET hits == SelectSeq(base_df, LAMBDA r : /\ astype_str(r.tipo) = tok_tipo
                                              /\ r.nom_inst = nom_inst
                                              /\ r.nom_ind = nom_ind
                                              /\ r.nom_grup = tok_grup
                                              /\ r.nom_atbt = tok_atbt
                                              /\ r.dat_base_info = date)
    IN  [i \in 1..Len(hits) |-> hits[i].valor]

\* the loop over the tokens, from token k on: a token that does not split in three
\* is left in the expression
RECURSIVE SubstituteTokens(_, _, _, _, _, _, _)
SubstituteTokens(expr, tokens, k, date, nom_inst, nom_ind, base_df) ==
    IF k > Len(tokens) THEN expr
    ELSE LET tok == tokens[k]
             parts == SplitBar(tok)
         IN  IF Len(parts) # 3
             THEN SubstituteTokens(expr, tokens, k + 1, date, nom_inst, nom_ind, base_df)
             ELSE LET val == MaskedValues(base_df, parts[1], nom_inst, nom_ind,
                                          parts[2], parts[3], date)
                      replacement == IF Len(val) > 0 THEN str_value(val[1]) ELSE <<"0">>
                  IN  SubstituteTokens(Replace(expr, <<"[">> \o tok \o <<"]">>, replacement),
                                       tokens, k + 1, date, nom_inst, nom_ind, base_df)

\* the expression after every reference was substituted
Substituted(formula, date, nom_inst, nom_ind, base_df) ==
    SubstituteTokens(formula, FindTokens(formula, 1), 1, date, nom_inst, nom_ind, base_df)

\* re.match(r"^[0-9+\-*/(). ]+$", expr)
AllowedExpr(expr) ==
    /\ expr # <<>>
    /\ \A i \in 1..Len(expr) :
          IsDigit(expr[i]) \/ expr[i] \in {"+", "-", "*", "/", "(", ")", ".", " "}

\* --- eval(expr) over numbers, + - * /, unary signs and parentheses (the operators
\* ** and // are used by no formula here and are taken for syntax errors)

RECURSIVE GCD(_, _)
GCD(a, b) == IF b = 0 THEN a ELSE GCD(b, a % b)

\* the fraction n / d in lowest terms with d > 0
Frac(n, d) ==
    LET g == GCD(Abs(n), Abs(d))
        s == IF d < 0 THEN -1 ELSE 1
    IN  [n |-> (s * n) \div g, d |-> (s * d) \div g]

Pow10(k) == DigitsValue(<<"1">> \o Zeros(k))

Failed == [ok |-> FALSE, val |-> Frac(0, 1), pos |-> 0]

Parsed(val, pos) == [ok |-> TRUE, val |-> val, pos |-> pos]

\* the first place from i on that holds no space
RECURSIVE SkipSpaces(_, _)
SkipSpaces(s, i) == IF i <= Len(s) /\ s[i] = " " THEN SkipSpaces(s, i + 1) ELSE i

\* the first place from i on that holds no digit
RECURSIVE SkipDigits(_, _)
SkipDigits(s, i) == IF i <= Len(s) /\ IsDigit(s[i]) THEN SkipDigits(s, i + 1) ELSE i

\* a number literal at i: digits, digits "." digits or "." digits; an integer
\* literal with a leading zero is a syntax error unless it is all zeros
ParseNumber(s, i) ==
    LET j == SkipDigits(s, i)
        dot == j <= Len(s) /\ s[j] = "."
        k == IF dot THEN SkipDigits(s, j + 1) ELSE j
        whole == SubSeq(s, i, j - 1)
        frac == IF dot THEN SubSeq(s, j + 1, k - 1) ELSE <<>>
    IN  IF whole = <<>> /\ frac = <<>> THEN Failed
        ELSE IF ~dot /\ Len(whole) > 1 /\ whole[1] = "0" /\ DigitsValue(whole) # 0 THEN Failed
        ELSE Parsed(Frac(DigitsValue(whole \o frac), Pow10(Len(frac))), k)

RECURSIVE ParseExpr(_, _)
RECURSIVE ExprRest(_, _, _)
RECURSIVE ParseTerm(_, _)
RECURSIVE TermRest(_, _, _)
RECURSIVE ParseFactor(_, _)
RECURSIVE Rest(_, _, _, _)

\* the parse continued after the operand t by the rest of an expression or of a
\* term, or the failure of t
ThenRest(kind, s, t) == IF t.ok THEN Rest(kind, s, t.pos, t.val) ELSE Failed

\* acc + t, acc - t, acc * t and acc / t of binary operators; a division by zero raises
BinOp(op, acc, t) ==
    IF op = "+" THEN Parsed(Frac(acc.n * t.d + t.n * acc.d, acc.d * t.d), 0)
    ELSE IF op = "-" THEN Parsed(Frac(acc.n * t.d - t.n * acc.d, acc.d * t.d), 0)
    ELSE IF op = "*" THEN Parsed(Frac(acc.n * t.n, acc.d * t.d), 0)
    ELSE IF t.n = 0 THEN Failed
    ELSE Parsed(Frac(acc.n * t.d, acc.d * t.n), 0)

\* the operand t applied to acc by op, and the parse continued after it
Applied(kind, s, op, acc, t) ==
    IF ~t.ok THEN Failed
    ELSE ThenRest(kind, s, [BinOp(op, acc, t.val) EXCEPT !.pos = t.pos])

\* term (("+" | "-") term)*
ParseExpr(s, i) == ThenRest("expr", s, ParseTerm(s, i))

ExprRest(s, i, acc) ==
    LET j == SkipSpaces(s, i)
    IN  IF j <= Len(s) /\ s[j] \in {"+", "-"}
        THEN Applied("expr", s, s[j], acc, ParseTerm(s, j + 1))
        ELSE Parsed(acc, j)

\* factor (("*" | "/") factor)*
ParseTerm(s, i) == ThenRest("term", s, ParseFactor(s, i))

TermRest(s, i, acc) ==
    LET j == SkipSpaces(s, i)
    IN  IF j <= Len(s) /\ s[j] \in {"*", "/"}
        THEN Applied("term", s, s[j], acc, ParseFactor(s, j + 1))
        ELSE Parsed(acc, j)

\* the rest of an expression or of a term
Rest(kind, s, i, acc) == IF kind = "expr" THEN ExprRest(s, i, acc) ELSE TermRest(s, i, acc)

\* the operand f with the sign put before it
Signed(sign, f) ==
    IF ~f.ok THEN Failed
    ELSE Parsed(IF sign = "-" THEN Frac(0 - f.val.n, f.val.d) ELSE f.val, f.pos)

\* the expression e closed by ")"
Closed(s, e) ==
    IF ~e.ok THEN Failed
    ELSE LET k == SkipSpaces(s, e.pos)
         IN  IF k <= Len(s) /\ s[k] = ")" THEN Parsed(e.val, k + 1) ELSE Failed

\* ("+" | "-") factor, "(" expr ")" or a number
ParseFactor(s, i) ==
    LET j == SkipSpaces(s, i)
    IN  IF j > Len(s) THEN Failed
        ELSE IF s[j] \in {"+", "-"} THEN Signed(s[j], ParseFactor(s, j + 1))
        ELSE IF s[j] = "(" THEN Closed(s, ParseExpr(s, j + 1))
        ELSE ParseNumber(s, j)

\* eval(expr): [ok, val]; ok is FALSE when eval raises
eval(expr) ==
    LET e == ParseExpr(expr, 1)
    IN  IF e.ok /\ SkipSpaces(expr, e.pos) = Len(expr) + 1
        THEN [ok |-> TRUE, val |-> e.val]
        ELSE [ok |-> FALSE, val |-> Frac(0, 1)]

\* the mutant: an expression that is rejected or fails counts as 0
evaluate_formula_zero_on_failure(formula, date, tipo, nom_inst, nom_ind, base_df) ==
    LET expr == Substituted(formula, date, nom_inst, nom_ind, base_df)
    IN  IF AllowedExpr(expr) /\ eval(expr).ok THEN eval(expr)
        ELSE [ok |-> TRUE, val |-> Frac(0, 1)]

\* the mutant: None when no reference of the formula has a value at the date
evaluate_formula_none_without_values(formula, date, tipo, nom_inst, nom_ind, base_df) ==
    LET expr == Substituted(formula, date, nom_inst, nom_ind, base_df)
        tokens == FindTokens(formula, 1)
        found == \E k \in 1..Len(tokens) :
                     /\ Len(SplitBar(tokens[k])) = 3
                     /\ MaskedValues(base_df, SplitBar(tokens[k])[1], nom_inst, nom_ind,
                                     SplitBar(tokens[k])[2], SplitBar(tokens[k])[3], date) # <<>>
    IN  IF ~found \/ ~AllowedExpr(expr) THEN [ok |-> FALSE, val |-> Frac(0, 1)]
        ELSE eval(expr)

\* evaluate_formula: [ok, val]; ok is FALSE for None
evaluate_formula(formula, date, tipo, nom_inst, nom_ind, base_df) ==
    LET expr == Substituted(formula, date, nom_inst, nom_ind, base_df)
    IN  IF ~AllowedExpr(expr) THEN [ok |-> FALSE, val |-> Frac(0, 1)]
        ELSE eval(expr)

\* base_df["dat_base_info"].dropna().unique(): in order of first appearance
RECURSIVE Unique(_, _)
Unique(df, seen) ==
    IF df = <<>> THEN <<>>
    ELSE LET d == Head(df).dat_base_info
         IN  IF d = NaN \/ d \in seen THEN Unique(Tail(df), seen)
             ELSE <<d>> \o Unique(Tail(df), seen \cup {d})

\* the date stamped on computed records (datetime.now(), fixed for a run)
execution_date == <<"2", "0", "2", "5", "-", "0", "7", "-", "0", "1">>

\* the records of one mapping row over the dates, from date k on
RECURSIVE CalcRowRecords(_, _, _, _)
CalcRowRecords(row, datas, k, base_df) ==
    IF k > Len(datas) THEN <<>>
    ELSE LET val == evaluate_formula(Strip(row.calculo), datas[k], row.tipo, row.nom_inst,
                                     row.nom_ind, base_df)
             rest == CalcRowRecords(row, datas, k + 1, base_df)
         IN  IF ~val.ok THEN rest
             ELSE <<[tipo |-> row.tipo, nom_inst |-> row.nom_inst, nom_ind |-> row.nom_ind,
                     nom_grup |-> row.nom_grup, nom_atbt |-> row.nom_atbt,
                     dat_base_info |-> datas[k], valor |-> val.val,
                     dat_extr_info |-> execution_date, origem |-> "calculado",
                     prioridade |-> 2]>> \o rest

\* the mutant: the records computed for a row join the base of the rows after it
\* (a computed number that is not whole joins it cut to one decimal)
RECURSIVE process_calculados_feeding(_, _)
process_calculados_feeding(calculados_rows, base_df) ==
    IF calculados_rows = <<>> THEN <<>>
    ELSE LET row == Head(calculados_rows)
             recs == IF Strip(row.calculo) = <<>> THEN <<>>
                     ELSE CalcRowRecords(row, Unique(base_df, {}), 1, base_df)
             fed == [i \in 1..Len(recs) |->
                        [recs[i] EXCEPT !.valor =
                            IF @.d = 1 THEN IntValue(@.n)
                            ELSE FloatValue((@.n * 10) \div @.d, 1)]]
         IN  recs \o process_calculados_feeding(Tail(calculados_rows), base_df \o fed)

\* process_calculados on a base that has its columns: the loop over the mapping
\* rows of origem "calculado"; a row with an empty formula is passed over
RECURSIVE process_calculados(_, _)
process_calculados(calculados_rows, base_df) ==
    IF calculados_rows = <<>> THEN <<>>
    ELSE LET row == Head(calculados_rows)
             rest == process_calculados(Tail(calculados_rows), base_df)
         IN  IF Strip(row.calculo) = <<>> THEN rest
             ELSE CalcRowRecords(row, Unique(base_df, {}), 1, base_df) \o rest

\* --- the branch outputs unify_origins is run on

KeyA == [tipo |-> <<"i", "n", "p", "u", "t">>, nom_inst |-> <<"b", "r", "a", "d", "e", "s", "c", "o">>, nom_ind |-> <<"C", "r", "e", "d", "i", "t", "o">>,
         nom_grup |-> <<"C", "a", "r", "t", "e", "i", "r", "a">>, nom_atbt |-> Receita, dat_base_info |-> <<"2", "0", "2", "5", "-", "0", "6", "-", "0", "1">>]

KeyB == [tipo |-> <<"i", "n", "p", "u", "t">>, nom_inst |-> <<"b", "r", "a", "d", "e", "s", "c", "o">>, nom_ind |-> <<"C", "r", "e", "d", "i", "t", "o">>,
         nom_grup |-> NaN, nom_atbt |-> Receita, dat_base_info |-> <<"2", "0", "2", "5", "-", "0", "3", "-", "0", "1">>]

\* a record of a branch: valor is its row number in the branch output
BranchRow(key, n, origem, prioridade) ==
    key @@ [valor |-> n, dat_extr_info |-> <<"2", "0", "2", "5", "-", "0", "7", "-", "0", "1">>, origem |-> origem,
            prioridade |-> prioridade]

\* the outputs a branch can give: up to MaxBranchLen records
BranchFrames(origem, prioridade) ==
    UNION {{[i \in 1..n |-> BranchRow(ks[i], i, origem, prioridade)] :
               ks \in [1..n -> {KeyA, KeyB}]} : n \in 0..MaxBranchLen}

UnifyInit ==
    /\ manual_df \in BranchFrames("manual", 1)
    /\ origin_df \in BranchFrames("series", 2)
    /\ calc_df \in BranchFrames("calculado", 2)
    /\ historico_df \in BranchFrames("historico", 3)
    /\ df_dedup = <<>>
    /\ pcUnify = "start"
    /\ calculados = <<>>
    /\ df_folh_ajus = <<>>
    /\ df_folh_inpu = <<>>

\* no branch gave a record: the empty frame is returned
UnifyNothing ==
    /\ pcUnify = "start"
    /\ NonEmpty(<<manual_df, origin_df, calc_df, historico_df>>) = <<>>
    /\ df_dedup' = <<>>
    /\ pcUnify' = "unified"
    /\ UNCHANGED <<manual_df, origin_df, calc_df, historico_df, calculados, df_folh_ajus,
                   df_folh_inpu, extractorVars, dateVars, fileVars, seriesVars>>

\* concat, sort_values, drop_duplicates
UnifyOrigins ==
    /\ pcUnify = "start"
    /\ NonEmpty(<<manual_df, origin_df, calc_df, historico_df>>) # <<>>
    /\ df_dedup' = unify_origins(manual_df, origin_df, calc_df, historico_df)
    /\ pcUnify' = "unified"
    /\ UNCHANGED <<manual_df, origin_df, calc_df, historico_df, calculados, df_folh_ajus,
                   df_folh_inpu, extractorVars, dateVars, fileVars, seriesVars>>

UnifyNext == UnifyNothing \/ UnifyOrigins

-----------------------------------------------------------------------------
(* main (main.py) from the branch outputs on: the computed attributes, the    *)
(* merge and the two final tables.                                            *)

MaxBaseRows == 2

Bradesco == <<"b", "r", "a", "d", "e", "s", "c", "o">>
Credito == <<"C", "r", "e", "d", "i", "t", "o">>
GrupoA == <<"g", "r", "u", "p", "o", "A">>
Atbt1 == <<"a", "t", "b", "t", "1">>
Atbt2 == <<"a", "t", "b", "t", "2">>
InputType == <<"i", "n", "p", "u", "t">>
Date1 == <<"2", "0", "2", "5", "-", "0", "3", "-", "0", "1">>
Date2 == <<"2", "0", "2", "5", "-", "0", "6", "-", "0", "1">>

\* a record of a branch output
MainRow(tipo, nom_atbt, date, valor, origem, prioridade) ==
    [tipo |-> tipo, nom_inst |-> Bradesco, nom_ind |-> Credito, nom_grup |-> GrupoA,
     nom_atbt |-> nom_atbt, dat_base_info |-> date, valor |-> valor,
     dat_extr_info |-> Date2, origem |-> origem, prioridade |-> prioridade]

\* the records process_series can give: 10 or 0.00005 for atbt1, 5 or 0 for atbt2
SeriesRows == {
    MainRow(InputType, Atbt1, Date1, IntValue(10), "series", 2),
    MainRow(InputType, Atbt1, Date1, FloatValue(5, 5), "series", 2),
    MainRow(InputType, Atbt2, Date1, IntValue(5), "series", 2),
    MainRow(InputType, Atbt2, Date1, IntValue(0), "series", 2),
    MainRow(InputType, Atbt1, Date2, IntValue(10), "series", 2) }

\* the outputs of process_series of up to n records
RECURSIVE SeriesOutputs(_)
SeriesOutputs(n) ==
    IF n = 0 THEN {<<>>}
    ELSE LET shorter == SeriesOutputs(n - 1)
         IN  shorter \cup {Append(f, r) : f \in {x \in shorter : Len(x) = n - 1},
                                          r \in SeriesRows}

\* the attributes the mapping computes
Calc1 == <<"c", "a", "l", "c", "1">>
Calc2 == <<"c", "a", "l", "c", "2">>

\* the outputs of process_historico: nothing, a value for atbt2, an empty cell for
\* atbt1, a value for the attribute calc1 that the mapping also computes
HistoricoOutputs == {
    <<>>,
    <<MainRow(InputType, Atbt2, Date1, IntValue(5), "historico", 3)>>,
    <<MainRow(InputType, Atbt1, Date1, NaN, "historico", 3)>>,
    <<MainRow(InputType, Calc1, Date1, IntValue(42), "historico", 3)>> }

\* the outputs of process_manual: nothing, or an adjust record, an input record and a
\* record of another type, or a record whose mapping row writes the type "Input"
ManualOutputs == {
    <<>>,
    <<MainRow(<<"A", "j", "u", "s", "t">>, <<"a", "t", "b", "t", "3">>, Date1, IntValue(7), "manual", 1),
      MainRow(InputType, Atbt1, Date1, IntValue(99), "manual", 1),
      MainRow(<<"o", "u", "t", "r", "o">>, <<"a", "t", "b", "t", "3">>, Date1, IntValue(8), "manual", 1)>>,
    <<MainRow(<<"I", "n", "p", "u", "t">>, Atbt1, Date1, IntValue(99), "manual", 1)>> }

\* a mapping row of origem "calculado"; sem is a ghost field, what the formula means:
\* "sum": atbt1 + atbt2, "div": atbt1 / atbt2, "diff2": (atbt1 - atbt2) * 2,
\* "calcref": calc1 + atbt2 with calc1 another computed attribute,
\* "none": not a formula
CalcRow(nom_atbt, calculo, sem) ==
    [tipo |-> InputType, nom_inst |-> Bradesco, nom_ind |-> Credito, nom_grup |-> GrupoA,
     nom_atbt |-> nom_atbt, calculo |-> calculo, sem |-> sem]

FormulaSum == <<"[", "i", "n", "p", "u", "t", "|", "g", "r", "u", "p", "o", "A", "|", "a", "t", "b", "t", "1", "]", "+", "[", "i", "n", "p", "u", "t", "|", "g", "r", "u", "p", "o", "A", "|", "a", "t", "b", "t", "2", "]">>
FormulaDiv == <<"[", "i", "n", "p", "u", "t", "|", "g", "r", "u", "p", "o", "A", "|", "a", "t", "b", "t", "1", "]", "/", "[", "i", "n", "p", "u", "t", "|", "g", "r", "u", "p", "o", "A", "|", "a", "t", "b", "t", "2", "]">>
FormulaDiff2 == <<"(", "[", "i", "n", "p", "u", "t", "|", "g", "r", "u", "p", "o", "A", "|", "a", "t", "b", "t", "1", "]", " ", "-", " ", "[", "i", "n", "p", "u", "t", "|", "g", "r", "u", "p", "o", "A", "|", "a", "t", "b", "t", "2", "]", ")", "*", "2">>
FormulaLetter == <<"[", "i", "n", "p", "u", "t", "|", "g", "r", "u", "p", "o", "A", "|", "a", "t", "b", "t", "1", "]", "+", "x">>
FormulaMalformed == <<"[", "i", "n", "p", "u", "t", "|", "g", "r", "u", "p", "o", "A", "]", "+", "1">>

FormulaCalcRef == <<"[", "i", "n", "p", "u", "t", "|", "g", "r", "u", "p", "o", "A", "|", "c", "a", "l", "c", "1", "]", "+", "[", "i", "n", "p", "u", "t", "|", "g", "r", "u", "p", "o", "A", "|", "a", "t", "b", "t", "2", "]">>

CalculadosLists == {
    <<>>,
    <<CalcRow(Calc1, FormulaSum, "sum"), CalcRow(Calc2, FormulaCalcRef, "calcref")>>,
    <<CalcRow(Calc2, FormulaCalcRef, "calcref"), CalcRow(Calc1, FormulaSum, "sum")>>,
    <<CalcRow(Calc1, FormulaSum, "sum")>>,
    <<CalcRow(Calc1, FormulaDiv, "div"), CalcRow(Calc2, FormulaSum, "sum")>>,
    <<CalcRow(Calc1, FormulaDiff2, "diff2")>>,
    <<CalcRow(Calc1, FormulaLetter, "none"), CalcRow(Calc2, FormulaSum, "sum")>>,
    <<CalcRow(Calc1, FormulaMalformed, "none"), CalcRow(Calc2, FormulaSum, "sum")>>,
    <<CalcRow(Calc1, <<" ">>, "none"), CalcRow(Calc2, FormulaSum, "sum")>> }

MainInit ==
    /\ manual_df \in ManualOutputs
    /\ origin_df \in SeriesOutputs(MaxBaseRows)
    /\ historico_df \in HistoricoOutputs
    /\ calculados \in CalculadosLists
    /\ calc_df = <<>>
    /\ df_dedup = <<>>
    /\ df_folh_ajus = <<>>
    /\ df_folh_inpu = <<>>
    /\ pcUnify = "branches"

\* the mutant: the historical records come first in the computation base
base_calc_df_historico_first(df_series, df_manual, df_historico) ==
    concat(<<df_historico, df_series>>)

\* the mutant: the manual records are put in the computation base too
base_calc_df_with_manual(df_series, df_manual, df_historico) ==
    concat(<<df_manual, df_series, df_historico>>)

\* base_calc_df = pd.concat([df_series, df_historico], ignore_index=True): of the
\* three branch outputs main holds, the manual one is left out
base_calc_df(df_series, df_manual, df_historico) == concat(<<df_series, df_historico>>)

\* df_calculado = process_calculados(mapping_df, base_calc_df).  Without a mapping row
\* of origem "calculado" the empty frame is returned before the base is looked at.
ProcessCalculados ==
    /\ pcUnify = "branches"
    /\ calculados = <<>> \/ base_calc_df(origin_df, manual_df, historico_df) # <<>>
    /\ calc_df' = IF calculados = <<>> THEN <<>>
                  ELSE process_calculados(calculados,
                                          base_calc_df(origin_df, manual_df, historico_df))
    /\ pcUnify' = "start"
    /\ UNCHANGED <<manual_df, origin_df, historico_df, df_dedup, calculados, df_folh_ajus,
                   df_folh_inpu, extractorVars, dateVars, fileVars, seriesVars>>

\* process_series and process_historico both returned pd.DataFrame(): the concatenated
\* base has no column, base_df["dat_base_info"] raises KeyError and main ends there
CalculadosRaises ==
    /\ pcUnify = "branches"
    /\ calculados # <<>>
    /\ base_calc_df(origin_df, manual_df, historico_df) = <<>>
    /\ pcUnify' = "raised"
    /\ UNCHANGED <<manual_df, origin_df, calc_df, historico_df, df_dedup, calculados,
                   df_folh_ajus, df_folh_inpu, extractorVars, dateVars, fileVars, seriesVars>>

\* if df_unificado.empty: return
NothingToExport ==
    /\ pcUnify = "unified"
    /\ df_dedup = <<>>
    /\ pcUnify' = "returned"
    /\ UNCHANGED <<manual_df, origin_df, calc_df, historico_df, df_dedup, calculados,
                   df_folh_ajus, df_folh_inpu, extractorVars, dateVars, fileVars, seriesVars>>

\* the mutant: the type is compared as it is written
type_is_exact(r, t) == r.tipo = t

\* df["tipo"].str.lower() == t
type_is(r, t) == r.tipo # NaN /\ [i \in 1..Len(r.tipo) |-> Lower(r.tipo[i])] = t

final_cols == {"nom_inst", "nom_ind", "nom_grup", "nom_atbt", "valor", "dat_base_info",
               "dat_extr_info"}

\* df[final_cols]
SelectColumns(df, cols) == [i \in 1..Len(df) |-> [c \in cols |-> df[i][c]]]

\* the two tables are cut from the merged frame and saved
SplitByType ==
    /\ pcUnify = "unified"
    /\ df_dedup # <<>>
    /\ df_folh_ajus' = SelectColumns(SelectSeq(df_dedup, LAMBDA r : type_is(r, <<"a", "j", "u", "s", "t">>)),
                                     final_cols)
    /\ df_folh_inpu' = SelectColumns(SelectSeq(df_dedup, LAMBDA r : type_is(r, InputType)),
                                     final_cols)
    /\ pcUnify' = "saved"
    /\ UNCHANGED <<manual_df, origin_df, calc_df, historico_df, df_dedup, calculados,
                   extractorVars, dateVars, fileVars, seriesVars>>

MainNext ==
    \/ ProcessCalculados
    \/ CalculadosRaises
    \/ UnifyNothing
    \/ UnifyOrigins
    \/ NothingToExport
    \/ SplitByType

\* --- the machines that are not running

ExtractorIdle ==
    /\ extractor = "none"
    /\ file_name = <<>>
    /\ fileQuarter = [q |-> 0, yy |-> 0]
    /\ data_div = <<>>

SeriesIdle ==
    /\ frames = <<>>
    /\ df_latest = <<>>
    /\ pcSeries = "idle"

UnifyIdle ==
    /\ manual_df = <<>>
    /\ origin_df = <<>>
    /\ calc_df = <<>>
    /\ historico_df = <<>>
    /\ df_dedup = <<>>
    /\ pcUnify = "idle"
    /\ calculados = <<>>
    /\ df_folh_ajus = <<>>
    /\ df_folh_inpu = <<>>

InitDate == DateInit /\ FileIdle /\ SeriesIdle /\ UnifyIdle

SpecDate == InitDate /\ [][DateNext]_vars

InitExtract == ExtractInit /\ DateIdle /\ SeriesIdle /\ UnifyIdle

SpecExtract == InitExtract /\ [][ExtractNext]_vars

InitResolve == ResolveInit /\ DateIdle /\ SeriesIdle /\ UnifyIdle

SpecResolve == InitResolve /\ [][ExtractNext]_vars

InitSheet == SheetInit /\ DateIdle /\ SeriesIdle /\ UnifyIdle

SpecSheet == InitSheet /\ [][ExtractNext]_vars

InitRun == RunInit /\ DateIdle /\ SeriesIdle /\ UnifyIdle

SpecRun == InitRun /\ [][ExtractNext]_vars

\* --- one file of any of the file names, with or without a quarter code, holding one
\* of the workbooks of the run

ReleaseInit ==
    /\ extractor \in Extractors
    /\ \E fn \in FileNames, wb \in RunWorkbooks : excel_files = <<ExcelFile(fn, wb)>>
    /\ sheet_targets = RunTargets
    /\ BeginRun

InitRelease == ReleaseInit /\ DateIdle /\ SeriesIdle /\ UnifyIdle

SpecRelease == InitRelease /\ [][ExtractNext]_vars

InitSeries == SeriesInit /\ ExtractorIdle /\ DateIdle /\ FileIdle /\ UnifyIdle

SpecSeries == InitSeries /\ [][SeriesNext]_vars

InitUnify == UnifyInit /\ ExtractorIdle /\ DateIdle /\ FileIdle /\ SeriesIdle

SpecUnify == InitUnify /\ [][UnifyNext]_vars

InitMain == MainInit /\ ExtractorIdle /\ DateIdle /\ FileIdle /\ SeriesIdle

SpecMain == InitMain /\ [][MainNext]_vars

-----------------------------------------------------------------------------
(* Properties of unify_origins (checked under SpecUnify) *)

\* the rows of a frame, as a set
Rows(df) == {df[i] : i \in 1..Len(df)}

\* every record handed to unify_origins
UnifyInputs == Rows(manual_df) \cup Rows(origin_df) \cup Rows(calc_df) \cup Rows(historico_df)

\* C1: for every key that occurs in the branch outputs, the unified frame holds a
\* record of that key, and its priority number is the lowest among the records of
\* the key: manual (1) before series/computed (2) before historical (3)
C1_LowestPriorityKept ==
    pcUnify = "unified" =>
        \A x \in UnifyInputs :
            /\ \E r \in Rows(df_dedup) : SameOn(r, x, UnifyKey)
            /\ \A r \in Rows(df_dedup) :
                   SameOn(r, x, UnifyKey) => r.prioridade <= x.prioridade

\* one key comes from the manual, series and historical branches and the manual
\* record is kept; another comes from the computed and historical branches only and
\* the computed record is kept
C1_Witness ==
    /\ pcUnify = "unified"
    /\ \E m \in Rows(manual_df), o \in Rows(origin_df), h \in Rows(historico_df) :
          /\ SameOn(m, o, UnifyKey) /\ SameOn(m, h, UnifyKey)
          /\ m \in Rows(df_dedup)
    /\ \E c \in Rows(calc_df), h \in Rows(historico_df) :
          /\ SameOn(c, h, UnifyKey)
          /\ \A m \in Rows(manual_df) \cup Rows(origin_df) : ~SameOn(c, m, UnifyKey)
          /\ c \in Rows(df_dedup)

\* C2: the unified frame holds exactly one record for every key of the branch
\* outputs, and every record it holds is one of the input records, unchanged
C2_OneRecordPerKey ==
    pcUnify = "unified" =>
        /\ \A x \in UnifyInputs :
               Cardinality({i \in 1..Len(df_dedup) : SameOn(df_dedup[i], x, UnifyKey)}) = 1
        /\ \A i \in 1..Len(df_dedup) : df_dedup[i] \in UnifyInputs

\* both keys occur, one of them twice in the manual branch alone and in every other
\* branch as well, and two records come out
C2_Witness ==
    /\ pcUnify = "unified"
    /\ Len(manual_df) = 2 /\ SameOn(manual_df[1], manual_df[2], UnifyKey)
    /\ \E o \in Rows(origin_df), c \in Rows(calc_df), h \in Rows(historico_df) :
          /\ SameOn(o, manual_df[1], UnifyKey)
          /\ SameOn(c, manual_df[1], UnifyKey)
          /\ ~SameOn(h, manual_df[1], UnifyKey)
    /\ Len(df_dedup) = 2
    /\ df_dedup[1] # df_dedup[2]

-----------------------------------------------------------------------------
(* Properties of load_series_historicas (checked under SpecSeries) *)

\* C3: for every (page, institution, attribute, reporting date) of the series files
\* exactly one record is kept, and no record of the key has a later release date
\* than the kept one
C3_GreatestReleaseKept ==
    pcSeries = "loaded" =>
        \A x \in Rows(concat(frames)) :
            /\ Cardinality({i \in 1..Len(df_latest) :
                               SameOn(df_latest[i], x, SeriesKey)}) = 1
            /\ \A r \in Rows(df_latest) :
                   (SameOn(r, x, SeriesKey) /\ x.data_divulgacao # NaN) =>
                       /\ r.data_divulgacao # NaN
                       /\ ~StrLess(r.data_divulgacao, x.data_divulgacao)

-----------------------------------------------------------------------------
(* Properties of the extraction driver (checked under SpecExtract) *)

\* C4: the records of one source file hold at most one record per
\* (page, institution, attribute, reporting date)
C4_OneRecordPerKeyAndFile ==
    \A i, j \in 1..Len(records) :
        i # j => ~SameOn(records[i], records[j], SeriesKey)

\* the data rows of the sheet read for target t, up to grid row g, that gave a
\* record with the raw attribute name a
RowsNamed(t, a, g) ==
    {records[j].grid_row : j \in {k \in 1..Len(records) :
                                     /\ records[k].target = t
                                     /\ records[k].raw_name = a
                                     /\ records[k].grid_row <= g}}

C6_OneNamePerRow ==
    \A i, j \in 1..Len(records) :
        (records[i].target = records[j].target /\ records[i].grid_row = records[j].grid_row)
            => records[i].nom_atbt = records[j].nom_atbt

\* each of two rows named Receita gives two records, under two reporting dates: the
\* two of the first row are named "Receita", the two of the second "Receita #2"
C6_Witness ==
    /\ pcFile = "returned"
    /\ \E i, j, k, l \in 1..Len(records) :
          /\ i < j /\ j < k /\ k < l
          /\ records[i].target = records[l].target
          /\ records[i].grid_row = records[j].grid_row
          /\ records[k].grid_row = records[l].grid_row
          /\ records[j].grid_row # records[k].grid_row
          /\ records[i].data_base # records[j].data_base
          /\ records[k].data_base # records[l].data_base
          /\ records[i].nom_atbt = Receita /\ records[j].nom_atbt = Receita
          /\ records[k].nom_atbt = <<"R", "e", "c", "e", "i", "t", "a", " ", "#", "2">>
          /\ records[l].nom_atbt = <<"R", "e", "c", "e", "i", "t", "a", " ", "#", "2">>

-----------------------------------------------------------------------------
(* Properties of the date label normalizer (checked under SpecDate) *)

\* "YYYY-MM-01" with MM one of 03, 06, 09, 12
IsCanonicalDate(s) ==
    /\ Len(s) = 10
    /\ AllDigits(s, 1, 4) /\ s[5] = "-" /\ s[8] = "-"
    /\ <<s[6], s[7]>> \in {<<"0", "3">>, <<"0", "6">>, <<"0", "9">>, <<"1", "2">>}
    /\ <<s[9], s[10]>> = <<"0", "1">>

MonthOfDate(s) == Int2(s[6], s[7])

\* the last month of the calendar quarter that contains month m
QuarterEndOf(m) == CHOOSE q \in {3, 6, 9, 12} : q - 2 <= m /\ m <= q

\* C7: in every extractor a quarter code, a month abbreviation with year and a
\* day/month/year string of the same quarter normalize to the same canonical date
\* (format_data_base("1T25") = format_data_base("Mar/25") =
\* format_data_base("31/03/2025") = "2025-03-01").
C7_Convergent ==
    (pcDate = "formatted" /\ labelForm \in {"quarter", "mon_slash", "dmy4"})
        => formatted = CanonDate(labelYear, QuarterEndOf(labelMonth))

C10_UnrecognizedUnchanged ==
    (pcDate = "formatted" /\ label.typ = "str" /\ ~Recognizes(extractor, label))
        => formatted = label.s

-----------------------------------------------------------------------------
(* Properties of the sheet resolver (checked under SpecResolve, where the     *)
(* two targets of a run are spellings of one label)                           *)

\* the outcomes of the targets whose resolution was attempted
Resolved == {i \in 1..Len(outcomes) : outcomes[i].status # "open_failed"}

\* the sheet a target resolved to, <<>> when it was skipped for want of a candidate
ResolvedSheet(i) == IF outcomes[i].status = "no_candidate" THEN <<>> ELSE outcomes[i].matched

\* C11: over one workbook, an accent, case or whitespace variant of a target label
\* resolves to the same sheet as the canonical spelling (or both resolve to none)
C11_VariantsResolveAlike ==
    \A i, j \in Resolved :
        outcomes[i].file = outcomes[j].file => ResolvedSheet(i) = ResolvedSheet(j)

\* both spellings were resolved, to a sheet of a workbook with two candidates, and
\* they are spelled differently after accents are removed
C11_Witness ==
    /\ Len(outcomes) = 2
    /\ Resolved = {1, 2}
    /\ outcomes[1].matched # <<>>
    /\ outcomes[1].matched = outcomes[2].matched
    /\ Len(candidate_names(sheet_map, normalize_name(sheet_targets[1]))) >= 2
    /\ [k \in 1..Len(sheet_targets[1]) |-> StripAccent(sheet_targets[1][k])]
           # [k \in 1..Len(sheet_targets[2]) |-> StripAccent(sheet_targets[2][k])]

\* the sheet names of the workbook of file f whose normalized name contains tn
Containing(f, tn) ==
    {excel_files[f].sheets[k].name : k \in
        {k \in 1..Len(excel_files[f].sheets) :
            Contains(normalize_name(excel_files[f].sheets[k].name), tn)}}

\* C12: the resolved sheet is one whose normalized name contains the normalized target;
\* it ends with the target if any such sheet does, and no sheet of the same ends-with
\* status has a shorter normalized name; with no containing sheet the target is skipped
\* and leaves no record
C12_EndsWithThenShortest ==
    \A i \in Resolved :
        LET o == outcomes[i]
            tn == normalize_name(sheet_targets[o.target])
            cands == Containing(o.file, tn)
            m == normalize_name(o.matched)
        IN  IF cands = {}
            THEN /\ o.status = "no_candidate"
                 /\ \A k \in 1..Len(records) : records[k].target # o.target
            ELSE /\ o.status # "no_candidate"
                 /\ o.matched \in cands
                 /\ (\E c \in cands : EndsWith(normalize_name(c), tn)) => EndsWith(m, tn)
                 /\ \A c \in cands :
                       (EndsWith(normalize_name(c), tn) <=> EndsWith(m, tn))
                           => Len(m) <= Len(normalize_name(c))

\* a sheet that ends with the target was taken although a containing sheet with a
\* shorter normalized name was there, and its records were emitted
C12_Witness ==
    \E i \in Resolved :
        LET o == outcomes[i]
            tn == normalize_name(sheet_targets[o.target])
        IN  /\ o.status = "parsed"
            /\ EndsWith(normalize_name(o.matched), tn)
            /\ \E c \in Containing(o.file, tn) :
                  /\ ~EndsWith(normalize_name(c), tn)
                  /\ Len(normalize_name(c)) < Len(normalize_name(o.matched))
            /\ \E k \in 1..Len(records) : records[k].target = o.target

-----------------------------------------------------------------------------
(* Properties of the header locator, the transformer and the whole            *)
(* process_file (checked under SpecSheet: one sheet, one target)              *)

\* the grid of the sheet an outcome is about, the targets whose sheet was parsed or
\* failed to parse, and the records emitted for an outcome's target
OutcomeGrid(o) == SheetGrid(excel_files[o.file].sheets, o.matched)

Located == {i \in 1..Len(outcomes) : outcomes[i].header >= 0}

RecordsOf(o) == SelectSeq(records, LAMBDA r : r.target = o.target)

\* C13: the header is the topmost row with at least two date-like cells; when no row
\* has two, the topmost row with at least one; when no row has any, guess_header_row
\* raises, and the sheet yields nothing
C13_TopmostTwoThenOne ==
    \A i \in Located :
        LET o == outcomes[i]
            g == OutcomeGrid(o)
            two == {k \in 1..Len(g) : DateLikeCount(extractor, g[k]) >= 2}
            one == {k \in 1..Len(g) : DateLikeCount(extractor, g[k]) >= 1}
        IN  /\ two # {} => o.header = Min(two)
            /\ (two = {} /\ one # {}) => o.header = Min(one)
            /\ one = {} => (o.header = 0 /\ o.status = "parse_failed" /\ RecordsOf(o) = <<>>)
            /\ one # {} => o.status = "parsed"

\* a row with two date labels was taken as the header although a row with one came
\* before it
C13_Witness ==
    \E i \in Located :
        LET o == outcomes[i]
            g == OutcomeGrid(o)
        IN  /\ o.header = 2
            /\ DateLikeCount(extractor, g[1]) = 1
            /\ DateLikeCount(extractor, g[2]) = 2

\* the workbook of the end-to-end example: header ["", "Mar/25", "Jun/25"], data row
\* ["Receita", 100, 200]
ExampleGrid ==
    <<<<StrLabel(<<>>), StrLabel(<<"M", "a", "r", "/", "2", "5">>), StrLabel(<<"J", "u", "n", "/", "2", "5">>)>>,
      <<StrLabel(Receita), IntLabel(100), IntLabel(200)>>>>

\* the sheet of the example was read and parsed, and process_file has returned
ExampleRun ==
    /\ sheets = <<[name |-> SheetName, grid |-> ExampleGrid]>>
    /\ pcFile \in {"returned", "done"}
    /\ Len(outcomes) = 1
    /\ outcomes[1].status = "parsed"

\* a record of attribute a, reporting date d, value v and release date dd
IsRecord(r, a, d, v, dd) ==
    /\ r.nom_atbt = a
    /\ r.data_base = d
    /\ r.vlr_atbt = Num(v, 0)
    /\ r.data_divulgacao = dd

\* C18: the example workbook, in a file named with "1T25", yields exactly two records:
\* Receita, 2025-03-01, 100 and Receita, 2025-06-01, 200, both released 2025-03-01
C18_EndToEnd ==
    ExampleRun =>
        /\ Contains(file_name, <<"1", "T", "2", "5">>)
        /\ Len(records) = 2
        /\ IsRecord(records[1], Receita, <<"2", "0", "2", "5", "-", "0", "3", "-", "0", "1">>, 100, <<"2", "0", "2", "5", "-", "0", "3", "-", "0", "1">>)
        /\ IsRecord(records[2], Receita, <<"2", "0", "2", "5", "-", "0", "6", "-", "0", "1">>, 200, <<"2", "0", "2", "5", "-", "0", "3", "-", "0", "1">>)
        /\ pcFile = "done" => all_records = records

\* the example was run to the end of main
C18_Witness == ExampleRun /\ pcFile = "done" /\ Len(all_records) = 2

\* the value cell a record was made from
ValueCell(o, r) == OutcomeGrid(o)[r.grid_row][r.grid_col]

\* C19: a native number is emitted as it is; the text "1.234,56" is emitted as 1234.56;
\* the text "abc" yields no tuple and no error, and the native number beside it in the
\* row is still emitted
C19_ValueCoercion ==
    \A i \in Located :
        LET o == outcomes[i]
            g == OutcomeGrid(o)
            fdc == first_date_col(extractor, g[o.header])
        IN  o.header > 0 =>
            /\ o.status = "parsed"
            /\ \A k \in 1..Len(RecordsOf(o)) :
                  LET r == RecordsOf(o)[k]
                      c == ValueCell(o, r)
                  IN  /\ IsNumber(c) => r.vlr_atbt = Num(c.n, 0)
                      /\ c = StrLabel(LocaleText) => r.vlr_atbt = Num(123456, 2)
                      /\ c # StrLabel(JunkText)
            /\ \A row \in (o.header + 1)..Len(g) : \A col \in fdc..Len(g[row]) :
                  (/\ ~IsNa(g[o.header][col])
                   /\ g[row][1].typ = "str"
                   /\ fdc = 2
                   /\ \E j \in fdc..Len(g[row]) : IsNumber(g[row][j])
                   /\ (IsNumber(g[row][col]) \/ g[row][col] = StrLabel(LocaleText)))
                  => \E k \in 1..Len(RecordsOf(o)) :
                        /\ RecordsOf(o)[k].grid_row = row
                        /\ RecordsOf(o)[k].grid_col = col

\* a row with "abc" beside a native number gave the number's record, and a "1.234,56"
\* cell gave a record in the same sheet
C19_Witness ==
    \E i \in Located :
        LET o == outcomes[i]
            g == OutcomeGrid(o)
            recs == RecordsOf(o)
        IN  /\ o.status = "parsed"
            /\ \E k \in 1..Len(recs) : ValueCell(o, recs[k]) = StrLabel(LocaleText)
            /\ \E k \in 1..Len(recs) :
                  /\ IsNumber(ValueCell(o, recs[k]))
                  /\ \E j \in 1..Len(g[recs[k].grid_row]) :
                        g[recs[k].grid_row][j] = StrLabel(JunkText)

-----------------------------------------------------------------------------
(* Properties of the extraction run (checked under SpecRun) *)

\* a is a prefix of b
IsPrefix(a, b) == Len(a) <= Len(b) /\ SubSeq(b, 1, Len(a)) = a

\* whether the step appended an outcome of one of the given statuses
StepWas(statuses) ==
    /\ Len(outcomes') = Len(outcomes) + 1
    /\ outcomes'[Len(outcomes')].status \in statuses

FailuresAreLocal ==
    \* nothing already extracted is ever removed or changed
    /\ IsPrefix(all_records, all_records')
    /\ file_i' = file_i => IsPrefix(records, records')
    \* a sheet that cannot be read or laid out costs only itself; the next target follows
    /\ StepWas({"read_failed", "parse_failed"}) =>
          /\ records' = records
          /\ target_i' = target_i + 1
          /\ pcFile' = "targets"
    \* a file that cannot be opened returns the empty list
    /\ StepWas({"open_failed"}) =>
          /\ records' = <<>>
          /\ pcFile' = "returned"
          /\ all_records' = all_records
    \* what a file returned is added to the run's records, and the next file is begun
    /\ pcFile = "returned" =>
          /\ all_records' = all_records \o records
          /\ file_i < Len(excel_files) => (file_i' = file_i + 1 /\ pcFile' = "start")
    \* at the end every file was opened, or failed to open, and every target of an opened
    \* file was attempted
    /\ pcFile' = "done" =>
          \A f \in 1..Len(excel_files) :
              \/ \E i \in 1..Len(outcomes') :
                    outcomes'[i].file = f /\ outcomes'[i].status = "open_failed"
              \/ \A t \in 1..Len(sheet_targets) :
                    \E i \in 1..Len(outcomes') :
                        outcomes'[i].file = f /\ outcomes'[i].target = t

\* C16: every failure of the extraction run is local: a sheet that cannot be read or
\* has no header row is skipped and the other sheets' records are kept; a file that
\* cannot be opened yields the empty list; the records of earlier files stay as they
\* are and later files are still processed
C16_FailuresAreLocal == [][FailuresAreLocal]_vars

\* the first file could not be opened; in the second the first target gave records
\* and the second could not be read; the run ended with the first target's records
C16_Witness ==
    /\ pcFile = "done"
    /\ Len(excel_files) = 2
    /\ Len(outcomes) = 3
    /\ outcomes[1].status = "open_failed"
    /\ outcomes[2].file = 2 /\ outcomes[2].status = "parsed"
    /\ outcomes[3].file = 2 /\ outcomes[3].status = "read_failed"
    /\ all_records # <<>>
    /\ \A k \in 1..Len(all_records) : all_records[k].target = 1

-----------------------------------------------------------------------------
(* Properties of the computed attributes and of main (checked under SpecMain) *)

\* process_calculados has returned
Calculated == pcUnify \in {"start", "unified", "returned", "saved"}

\* the computation base and its distinct reporting dates
BaseDf == concat(<<origin_df, historico_df>>)

BaseDates == {BaseDf[i].dat_base_info : i \in 1..Len(BaseDf)}

\* the base values found for a reference to a input|grupoA attribute at a date
Found(nom_atbt, date) ==
    MaskedValues(BaseDf, InputType, Bradesco, Credito, GrupoA, nom_atbt, date)

\* the number a reference stands for: the value found, 0 when there is none
RefValue(nom_atbt, date) ==
    IF Found(nom_atbt, date) = <<>> THEN Frac(0, 1)
    ELSE Frac(Found(nom_atbt, date)[1].num, Pow10(Found(nom_atbt, date)[1].scale))

\* every value a formula over atbt1 and atbt2 refers to at the date is a number
RefsAreNumbers(date) ==
    \A a \in {Atbt1, Atbt2} : Found(a, date) = <<>> \/ Found(a, date)[1] # NaN

\* the arithmetic value of a formula of the given meaning
Meaning(sem, date) ==
    LET a == RefValue(Atbt1, date)
        b == RefValue(Atbt2, date)
    IN  CASE sem = "sum" -> Frac(a.n * b.d + b.n * a.d, a.d * b.d)
          [] sem = "div" -> Frac(a.n * b.d, a.d * b.n)
          [] sem = "diff2" -> Frac(2 * (a.n * b.d - b.n * a.d), a.d * b.d)
          [] sem = "calcref" -> LET c == RefValue(Calc1, date)
                                IN  Frac(c.n * b.d + b.n * c.d, c.d * b.d)

\* the computed records of a mapping row at a date
CalcRecords(row, date) ==
    SelectSeq(calc_df, LAMBDA r : r.nom_atbt = row.nom_atbt /\ r.dat_base_info = date)

\* C14: a formula evaluates to its arithmetic value with every reference replaced by
\* the base value found for it, or by 0 when there is none: for "atbt1 + atbt2" with
\* 10 and 5 the computed record carries 15, with one of them missing the value of
\* the other
C14_FormulaValue ==
    Calculated =>
        \A k \in 1..Len(calculados) : \A date \in BaseDates :
            LET row == calculados[k]
            IN  (/\ row.sem # "none"
                 /\ RefsAreNumbers(date)
                 /\ row.sem = "div" => RefValue(Atbt2, date).n # 0)
                => \E i \in 1..Len(CalcRecords(row, date)) :
                      CalcRecords(row, date)[i].valor = Meaning(row.sem, date)

\* the expression of a mapping row at a date after the substitution
RowExpr(row, date) == Substituted(Strip(row.calculo), date, row.nom_inst, row.nom_ind, BaseDf)

\* C15: a formula whose substituted expression holds a character outside digits,
\* + - * / ( ) . and space (a letter, a reference left in brackets), or whose
\* evaluation fails (a division by a reference resolved to 0), gives no record for
\* that formula and date, and every other formula and date still gives its record
C15_RejectedFormulaGivesNoRecord ==
    Calculated =>
        \A k \in 1..Len(calculados) : \A date \in BaseDates :
            LET row == calculados[k]
                expr == RowExpr(row, date)
                rejected == \/ \E i \in 1..Len(expr) : IsLetter(expr[i]) \/ expr[i] \in {"[", "]", "|"}
                            \/ row.sem = "div" /\ RefsAreNumbers(date)
                                               /\ RefValue(Atbt2, date).n = 0
            IN  /\ rejected => CalcRecords(row, date) = <<>>
                /\ (~rejected /\ Strip(row.calculo) # <<>>) => Len(CalcRecords(row, date)) = 1

\* one list held a formula with a letter and a sound one, and only the sound one gave
\* a record; in another run a division by a reference resolved to 0 gave none
C15_Witness ==
    /\ Calculated
    /\ Len(calculados) = 2
    /\ \E date \in BaseDates :
          /\ \/ calculados[1].calculo = FormulaLetter
             \/ /\ calculados[1].sem = "div"
                /\ RefsAreNumbers(date)
                /\ RefValue(Atbt2, date).n = 0
          /\ CalcRecords(calculados[1], date) = <<>>
          /\ Len(CalcRecords(calculados[2], date)) = 1

\* the record of a merged row in a final table
FinalRecord(r) == [c \in final_cols |-> r[c]]

\* C17: main never loses the records of a branch because another branch is empty or
\* failed: it does not end in an error, and when it has saved the tables every manual
\* record of type adjust or input is in them
C17_ManualRecordsSurvive ==
    /\ pcUnify # "raised"
    /\ pcUnify \in {"returned", "saved"} =>
          \A i \in 1..Len(manual_df) :
              LET r == manual_df[i]
              IN  /\ type_is(r, <<"a", "j", "u", "s", "t">>) =>
                        \E j \in 1..Len(df_folh_ajus) : df_folh_ajus[j] = FinalRecord(r)
                  /\ type_is(r, InputType) =>
                        \E j \in 1..Len(df_folh_inpu) : df_folh_inpu[j] = FinalRecord(r)

\* the type of a merged record in lower case (NaN when it has none)
LowerType(r) == IF r.tipo = NaN THEN NaN ELSE [k \in 1..Len(r.tipo) |-> Lower(r.tipo[k])]

\* the merged records of a type
OfType(t) == {i \in 1..Len(df_dedup) : LowerType(df_dedup[i]) = t}

\* C20: in the saved tables every merged record of type adjust is in the adjust table
\* and every one of type input in the input table, no record is in both or twice, and
\* a table record has exactly the seven fields institution, indicator group,
\* attribute group, attribute name, value, reporting date and extraction date
C20_PartitionByType ==
    pcUnify = "saved" =>
        /\ \A i \in OfType(<<"a", "j", "u", "s", "t">>) :
              \E j \in 1..Len(df_folh_ajus) : df_folh_ajus[j] = FinalRecord(df_dedup[i])
        /\ \A i \in OfType(InputType) :
              \E j \in 1..Len(df_folh_inpu) : df_folh_inpu[j] = FinalRecord(df_dedup[i])
        /\ Len(df_folh_ajus) = Cardinality(OfType(<<"a", "j", "u", "s", "t">>))
        /\ Len(df_folh_inpu) = Cardinality(OfType(InputType))
        /\ \A j \in 1..Len(df_folh_ajus) :
              /\ DOMAIN df_folh_ajus[j] = final_cols
              /\ \E i \in OfType(<<"a", "j", "u", "s", "t">>) : df_folh_ajus[j] = FinalRecord(df_dedup[i])
        /\ \A j \in 1..Len(df_folh_inpu) :
              /\ DOMAIN df_folh_inpu[j] = final_cols
              /\ \E i \in OfType(InputType) : df_folh_inpu[j] = FinalRecord(df_dedup[i])

\* both tables were saved with records, beside a merged record of a third type
C20_Witness ==
    /\ pcUnify = "saved"
    /\ df_folh_ajus # <<>>
    /\ Len(df_folh_inpu) >= 2
    /\ Len(df_dedup) > Len(df_folh_ajus) + Len(df_folh_inpu)

-----------------------------------------------------------------------------
(* Properties of the release date of a file (checked under SpecRelease)       *)

\* the release date of quarter q of year 20yy: the first day of month 3q
ReleaseDateOf(q, yy) == Fmt04d(2000 + yy) \o <<"-">> \o Fmt02d(3 * q) \o <<"-", "0", "1">>

\* C21: the release date of a file is the first day of month 3q of 20yy for the first
\* quarter code qTyy (q in 1..4, either case of T) of its name, and empty for a name
\* without one; with or without it every tuple parsed from the file's sheets is
\* emitted as a record carrying that release date
C21_ReleaseDateFromQuarterCode ==
    pcFile \in {"targets", "returned", "done"} =>
        /\ data_div = IF fileQuarter.q = 0 THEN <<>>
                      ELSE ReleaseDateOf(fileQuarter.q, fileQuarter.yy)
        /\ \A i \in 1..Len(outcomes) :
              outcomes[i].status = "parsed" =>
                  /\ Len(RecordsOf(outcomes[i]))
                        = Len(parse_sheet(extractor, OutcomeGrid(outcomes[i])).tuples)
                  /\ \A k \in 1..Len(RecordsOf(outcomes[i])) :
                        RecordsOf(outcomes[i])[k].data_divulgacao = data_div

\* a file whose name holds no quarter code was processed and its records were emitted
\* with the empty release date
C21_Witness ==
    /\ pcFile = "done"
    /\ fileQuarter.q = 0
    /\ Len(all_records) >= 2
    /\ \A k \in 1..Len(all_records) : all_records[k].data_divulgacao = <<>>

-----------------------------------------------------------------------------
(* Properties of the header locator and the row filter in every extractor     *)
(* (checked under SpecSheet)                                                  *)

\* a native date/time value, or text in one of the four listed forms
ListedDateForm(c) ==
    \/ c.typ = "ts"
    \/ c.typ = "str" /\ LET t == Strip(c.s)
                        IN  \/ MonthPattern(t) \/ QuarterPattern(t)
                            \/ SlashPattern(t) \/ IsoPrefixPattern(t)

\* C22: in every extractor a sheet with a row that holds a native date or text in one
\* of the four listed forms has its header located: guess_header_row does not raise
\* and the sheet is parsed
C22_ListedFormsLocateHeader ==
    \A i \in Located :
        LET g == OutcomeGrid(outcomes[i])
        IN  (\E k \in 1..Len(g) : \E j \in 1..Len(g[k]) : ListedDateForm(g[k][j]))
                => (outcomes[i].header # 0 /\ outcomes[i].status = "parsed")

\* a native number, or text that float() reads once the dots are removed and the
\* comma is made a dot
ParsesAsNumber(c) == IsNumber(c) \/ (c.typ = "str" /\ LocaleFloat(c).ok)

\* the records of an outcome's target that come from grid row k
RowRecords(o, k) == SelectSeq(RecordsOf(o), LAMBDA r : r.grid_row = k)

\* C23: in every extractor a data row below the header yields no record when it has
\* no label left of first_date_col or no cell from first_date_col on that parses as a
\* number; any other row is kept, and each of its cells that parses as a number under
\* a header label is emitted, the text "1.234,56" included
C23_RowSkippedIffNoLabelOrNoNumber ==
    \A i \in 1..Len(outcomes) :
        outcomes[i].status = "parsed" =>
            LET o == outcomes[i]
                g == OutcomeGrid(o)
                fdc == first_date_col(extractor, g[o.header])
            IN  \A k \in (o.header + 1)..Len(g) :
                    LET skipped == \/ attr_parts(g[k], fdc) = <<>>
                                   \/ ~\E j \in fdc..Len(g[k]) : ParsesAsNumber(g[k][j])
                    IN  /\ skipped => RowRecords(o, k) = <<>>
                        /\ ~skipped =>
                              \A j \in fdc..Len(g[o.header]) :
                                  (~IsNa(g[o.header][j]) /\ ParsesAsNumber(g[k][j]))
                                      => \E n \in 1..Len(RowRecords(o, k)) :
                                            RowRecords(o, k)[n].grid_col = j

-----------------------------------------------------------------------------
(* Properties of the computed branch and the final tables (checked under      *)
(* SpecMain)                                                                  *)

\* the computed records of the run that differs from this one in the manual source
\* only, its manual branch output being m
ComputedWith(m) ==
    IF calculados = <<>> THEN <<>>
    ELSE process_calculados(calculados, base_calc_df(origin_df, m, historico_df))

\* C24: the computed records of a run are those of every run with the same series,
\* historical and mapping inputs and another manual source
C24_ComputedIndependentOfManual ==
    Calculated => \A m \in ManualOutputs : ComputedWith(m) = calc_df

\* computed records were produced from a base in which an attribute the formula
\* refers to has a series value, while the manual source holds another value for
\* that attribute at that date
C24_Witness ==
    /\ Calculated
    /\ calc_df # <<>>
    /\ \E i \in 1..Len(manual_df) : \E j \in 1..Len(origin_df) :
          /\ manual_df[i].nom_atbt = Atbt1
          /\ origin_df[j].nom_atbt = Atbt1
          /\ manual_df[i].tipo = origin_df[j].tipo
          /\ manual_df[i].dat_base_info = origin_df[j].dat_base_info
          /\ manual_df[i].valor # origin_df[j].valor

-----------------------------------------------------------------------------
(* Properties of the series loader (checked under SpecSeries)                 *)

\* C25: a record without a release date is kept for a key only when no record of the
\* series files with that key has one
C25_UnknownVintageNeverDisplaces ==
    pcSeries = "loaded" =>
        \A i \in 1..Len(df_latest) :
            df_latest[i].data_divulgacao = NaN =>
                \A x \in Rows(concat(frames)) :
                    SameOn(x, df_latest[i], SeriesKey) => x.data_divulgacao = NaN

\* the places of the historical records that have the key of a computed record
Displaced ==
    {i \in 1..Len(historico_df) :
        \E n \in 1..Len(calc_df) : SameOn(calc_df[n], historico_df[i], UnifyKey)}

\* C26: for every computed mapping row and every reporting date of the base at which
\* its substituted formula evaluates, a computed record of priority 2 carries the
\* value, also when no reference has a value at the date; a historical record with
\* the key of a computed record is not in the merged frame and not in a final table
C26_ComputedDisplacesHistorical ==
    /\ Calculated =>
          \A k \in 1..Len(calculados) : \A date \in BaseDates :
              LET expr == RowExpr(calculados[k], date)
              IN  (AllowedExpr(expr) /\ eval(expr).ok) =>
                      \E n \in 1..Len(CalcRecords(calculados[k], date)) :
                          /\ CalcRecords(calculados[k], date)[n].valor = eval(expr).val
                          /\ CalcRecords(calculados[k], date)[n].prioridade = 2
    /\ pcUnify \in {"unified", "returned", "saved"} =>
          \A i \in Displaced : \A j \in 1..Len(df_dedup) : df_dedup[j] # historico_df[i]
    /\ pcUnify = "saved" =>
          \A i \in Displaced :
              /\ \A j \in 1..Len(df_folh_inpu) : df_folh_inpu[j] # FinalRecord(historico_df[i])
              /\ \A j \in 1..Len(df_folh_ajus) : df_folh_ajus[j] # FinalRecord(historico_df[i])

\* the only record of the base is the historical value 42 of calc1, no reference of
\* calc1's formula has a value, and the input table holds the computed 0 for calc1
C26_Witness ==
    /\ pcUnify = "saved"
    /\ origin_df = <<>>
    /\ Displaced # {}
    /\ \E n \in 1..Len(calc_df) :
          /\ calc_df[n].nom_atbt = Calc1
          /\ calc_df[n].valor = Frac(0, 1)
          /\ \E j \in 1..Len(df_folh_inpu) : df_folh_inpu[j] = FinalRecord(calc_df[n])

\* the records the merge keeps of the series and historical outputs when there is no
\* manual entry: a historical record only when no series record has its key
MergePreferred ==
    origin_df \o SelectSeq(historico_df,
                           LAMBDA h : \A j \in 1..Len(origin_df) : ~SameOn(origin_df[j], h, UnifyKey))

\* the expression of a mapping row at a date with every reference replaced by the
\* value the merge keeps for it
PreferredExpr(row, date) ==
    Substituted(Strip(row.calculo), date, row.nom_inst, row.nom_ind, MergePreferred)

\* the attributes that have a series value and a historical value at a date
InBoth(date) ==
    {a \in {Atbt1, Atbt2, Calc1} :
        /\ \E j \in 1..Len(origin_df) :
              origin_df[j].nom_atbt = a /\ origin_df[j].dat_base_info = date
        /\ \E j \in 1..Len(historico_df) :
              /\ historico_df[j].nom_atbt = a /\ historico_df[j].dat_base_info = date
              /\ historico_df[j].valor # NaN}

\* C27: the computed value of a formula at a date is its value with every reference
\* replaced by the value the merge keeps for the referenced attribute: the series
\* value when the base holds a series and a historical value for it
C27_SeriesValueSubstituted ==
    Calculated =>
        \A k \in 1..Len(calculados) : \A date \in BaseDates :
            (AllowedExpr(PreferredExpr(calculados[k], date))
             /\ eval(PreferredExpr(calculados[k], date)).ok)
                => /\ Len(CalcRecords(calculados[k], date)) = 1
                   /\ CalcRecords(calculados[k], date)[1].valor
                         = eval(PreferredExpr(calculados[k], date)).val

\* atbt2 has the series value 0 and the historical value 5 at a date, and the sum
\* atbt1 + atbt2 was computed as 10 + 0
C27_Witness ==
    /\ Calculated
    /\ \E date \in BaseDates :
          /\ Atbt2 \in InBoth(date)
          /\ RefValue(Atbt1, date) = Frac(10, 1)
          /\ \E j \in 1..Len(historico_df) : historico_df[j].valor = IntValue(5)
          /\ \E j \in 1..Len(origin_df) :
                origin_df[j].nom_atbt = Atbt2 /\ origin_df[j].valor = IntValue(0)
          /\ \A j \in 1..Len(origin_df) :
                origin_df[j].nom_atbt = Atbt2 => origin_df[j].valor = IntValue(0)
          /\ \E k \in 1..Len(calculados) :
                /\ calculados[k].sem = "sum"
                /\ CalcRecords(calculados[k], date) # <<>>
                /\ CalcRecords(calculados[k], date)[1].valor = Frac(10, 1)

\* the key of a record of a final table
FinalKey == <<"nom_inst", "nom_ind", "nom_grup", "nom_atbt", "dat_base_info">>

\* C28: a saved table holds at most one record per (institution, indicator group,
\* attribute group, attribute name, reporting date)
C28_OneRecordPerKeyInTable ==
    pcUnify = "saved" =>
        /\ \A i, j \in 1..Len(df_folh_inpu) :
              SameOn(df_folh_inpu[i], df_folh_inpu[j], FinalKey) => i = j
        /\ \A i, j \in 1..Len(df_folh_ajus) :
              SameOn(df_folh_ajus[i], df_folh_ajus[j], FinalKey) => i = j

-----------------------------------------------------------------------------
(* Properties of the sheet resolver under reordering (checked under           *)
(* SpecResolve)                                                               *)

\* the orders a workbook can list n sheets in
SheetOrders(n) == {p \in [1..n -> 1..n] : \A a, b \in 1..n : p[a] = p[b] => a = b}

\* the sheet the target resolves to when the workbook lists its sheets in the order p;
\* <<>> when there is no candidate
ResolvedUnder(p, target) ==
    LET names == [k \in 1..Len(sheets) |-> sheets[p[k]].name]
        smap == BuildSheetMap(names, <<>>)
    IN  IF candidate_names(smap, normalize_name(target)) = <<>> THEN <<>>
        ELSE matched_name(smap, target)

\* C29: the sheet a target resolved to is the sheet it resolves to under every other
\* order of the workbook's sheet list
C29_ResolutionIgnoresSheetOrder ==
    \A i \in Resolved :
        \A p \in SheetOrders(Len(sheets)) :
            ResolvedUnder(p, sheet_targets[outcomes[i].target]) = ResolvedSheet(i)

-----------------------------------------------------------------------------
(* Properties of the computed branch under reordering of the mapping (checked *)
(* under SpecMain)                                                            *)

\* the orders the mapping can list its computed rows in
MappingOrders ==
    LET n == Len(calculados)
    IN  {[k \in 1..n |-> calculados[p[k]]] :
            p \in {q \in [1..n -> 1..n] : \A a, b \in 1..n : q[a] = q[b] => a = b}}

\* the computed records of the run whose mapping lists the computed rows in the order c
ComputedUnder(c) ==
    IF c = <<>> THEN <<>>
    ELSE process_calculados(c, base_calc_df(origin_df, manual_df, historico_df))

\* the merged frame of that run
MergedUnder(c) == unify_origins(manual_df, origin_df, ComputedUnder(c), historico_df)

\* C30: every formula is evaluated over the series and historical records alone, so
\* that a reference to a computed attribute without a series or historical value at
\* the date stands for 0; the computed records, the merged frame and the saved
\* tables are those of the run with the computed rows of the mapping in any other
\* order
C30_ComputedIgnoresMappingOrder ==
    /\ Calculated =>
          \A k \in 1..Len(calculados) : \A date \in BaseDates :
              LET row == calculados[k]
                  expr == RowExpr(row, date)
              IN  /\ (AllowedExpr(expr) /\ eval(expr).ok)
                        => /\ Len(CalcRecords(row, date)) = 1
                           /\ CalcRecords(row, date)[1].valor = eval(expr).val
                  /\ (row.sem = "calcref" /\ Found(Calc1, date) = <<>>
                         /\ RefsAreNumbers(date))
                        => /\ Len(CalcRecords(row, date)) = 1
                           /\ CalcRecords(row, date)[1].valor = RefValue(Atbt2, date)
    /\ Calculated =>
          \A c \in MappingOrders : Rows(ComputedUnder(c)) = Rows(calc_df)
    /\ pcUnify \in {"unified", "saved"} =>
          \A c \in MappingOrders : MergedUnder(c) = df_dedup
    /\ pcUnify = "saved" =>
          \A c \in MappingOrders :
              /\ df_folh_inpu = SelectColumns(SelectSeq(MergedUnder(c),
                                                 LAMBDA r : type_is(r, InputType)), final_cols)
              /\ df_folh_ajus = SelectColumns(SelectSeq(MergedUnder(c),
                                                 LAMBDA r : type_is(r, <<"a", "j", "u", "s", "t">>)),
                                              final_cols)

\* the tables were saved by a run whose mapping lists calc2 = calc1 + atbt2 and calc1
\* = atbt1 + atbt2; at a date calc1 has no series or historical value and was
\* computed as 15, and calc2 was computed as 0 + 5
C30_Witness ==
    /\ pcUnify = "saved"
    /\ Len(calculados) = 2
    /\ \E date \in BaseDates :
          /\ Found(Calc1, date) = <<>>
          /\ \E i, j \in 1..Len(calc_df) :
                /\ calc_df[i].nom_atbt = Calc1
                /\ calc_df[i].dat_base_info = date
                /\ calc_df[i].valor = Frac(15, 1)
                /\ calc_df[j].nom_atbt = Calc2
                /\ calc_df[j].dat_base_info = date
                /\ calc_df[j].valor = Frac(5, 1)
          /\ \E i \in 1..Len(df_folh_inpu) :
                /\ df_folh_inpu[i].nom_atbt = Calc2
                /\ df_folh_inpu[i].dat_base_info = date
                /\ df_folh_inpu[i].valor = Frac(5, 1)

=============================================================================
